---- MODULE Spec2Model ----
\* A model of the Agilent 4UHV driver of instrumentRs: the framed
\* command/response protocol (checksum, command package builder, read
\* package parser and its typed accessors) and the driver's exchanges on the
\* shared transport.
\*
\* Bytes are integers 0..255, byte strings are sequences of bytes (1-based:
\* Rust's data[i] is s[i+1], Rust's data[a..b] is Slice(s, a, b)).

EXTENDS Integers, Sequences, FiniteSets, TLC

\* ---------------------------------------------------------------- bounds

\* Longest arbitrary byte string handed to ReadPackage::try_new.
MaxRaw == 6
\* Longest DATA field of a structured response frame.
MaxData == 3
\* Longest alphanumeric payload of a write command that is enumerated.
MaxStr == 2
\* Handles that share the transport.
NumHandles == 2
\* sendcmd / query calls made in one run, over all handles.
MaxCalls == 2
\* sendcmd / query calls made in one run when one handle is followed through
\* failures of the transport.
MaxSeqCalls == 1

\* Response frames the instrument sends ahead of their readers, and the
\* read_package calls made for them.
MaxFrames == 2

\* Methods of the instrument and of its channels called in one run, over all
\* handles.
MaxOps == 2

\* ------------------------------------------------------- program constants

STX == 2
ETX == 3
ACK == 6
COM_READ == 48
COM_WRITE == 49
ADDR_BASE == 128
MAX_WIN == 999
MIN_PKG_LEN == 6
HEADER_SKIP == 4
MAX_ALNUM_LEN == 48
U8_MAX == 255

\* ------------------------------------------------------------------ state

VARIABLES
    step,   \* package layer: "start", "built", "received", "parsed", "read"
    args,   \* the arguments of the CommandPackage constructor called
    cmd,    \* what the constructor returned: Ok(package) or a panic
    raw,    \* the bytes handed to ReadPackage::try_new
    pkg,    \* what try_new returned: Ok(package) or an error
    ret,    \* the accessor called on the package and what it returned
    lock,   \* driver: the handle holding the interface mutex, 0 when free
    pc,     \* where each handle is in sendcmd / query / read_package
    call,   \* the call each handle is in: function and command frame
    buf,    \* read_package's buf of each handle
    result, \* what each handle's last call returned
    wire,   \* the bytes the instrument has sent and the host has not read
    log,    \* the calls made on the transport so far, in order
    calls,  \* the number of sendcmd / query calls made so far
    unit,   \* the cached unit (Arc<Mutex<Unit>>) of the instrument's handles
    inst_unit, \* the unit the instrument is set to
    method, \* the public method each handle is in, and its argument
    sent,   \* the frames the instrument has sent, in order
    lbk,    \* a LoopbackInterfaceBytes
    lbk_io, \* the last call on lbk and its result; the commands written to
            \* it and the bytes read from it so far
    num_channels, \* num_channels of an Agilent4Uhv and of a Tpg36x
    channels,     \* the Channels that get_channel has returned
    chan_ret      \* the last call about channels: its argument, num_channels
                  \* when it was made, and what it returned

\* ------------------------------------------------------------ result values

\* Result<T, InstrumentError> and a panic (abort) as one shape of record, so
\* that any two results can be compared.
Ok(v) == [tag |-> "Ok", kind |-> "", msg |-> "", val |-> v]

Err(kind, msg, v) == [tag |-> "Err", kind |-> kind, msg |-> msg, val |-> v]

Panic(msg) == [tag |-> "Panic", kind |-> "", msg |-> msg, val |-> <<>>]

NoResult == [tag |-> "None", kind |-> "", msg |-> "", val |-> <<>>]

\* ------------------------------------------------------------------ slices

\* Rust's  &s[a..b]  on a slice: the indexes are usize, and the expression
\* aborts unless 0 <= a <= b <= s.len().  InRange is the bounds check, Slice
\* the bytes when it passes.
InRange(s, a, b) == a >= 0 /\ a <= b /\ b <= Len(s)

Slice(s, a, b) == SubSeq(s, a + 1, b)

\* ---------------------------------------------------------------- checksum

RECURSIVE BitXor(_, _)
\* a ^ b on u8
BitXor(a, b) ==
    IF a = 0 /\ b = 0 THEN 0
    ELSE (((a % 2) + (b % 2)) % 2) + (2 * BitXor(a \div 2, b \div 2))

RECURSIVE XorFold(_, _)
\* data.iter().fold(acc, |acc, b| acc ^ b)
XorFold(acc, data) ==
    IF data = <<>> THEN acc
    ELSE XorFold(BitXor(acc, Head(data)), Tail(data))

\* UpperHexDigit as "{:02x}" would give it: lower case.
LowerHexDigit(n) == IF n < 10 THEN 48 + n ELSE 87 + n

\* One digit of format!("{:02X}", _): '0'..'9', 'A'..'F'.
UpperHexDigit(n) == IF n < 10 THEN 48 + n ELSE 55 + n

\* format!("{:02X}", crc & 0x0F): the low digit alone.
FormatHex02_LowNibble(x) == <<48, UpperHexDigit(x % 16)>>

\* format!("{:02X}", crc) of a u8, as bytes.
FormatHex02(x) == <<UpperHexDigit(x \div 16), UpperHexDigit(x % 16)>>

\* utils::calculate_crc
calculate_crc(data) ==
    LET crc == XorFold(0, data)
        crc_bytes == FormatHex02(crc)
    IN  <<crc_bytes[1], crc_bytes[2]>>

\* -------------------------------------------------------- decimal formatting

RECURSIVE DecDigits(_)
\* The decimal digits of n >= 0 as ASCII bytes, no padding.
DecDigits(n) ==
    IF n < 10 THEN <<48 + n>>
    ELSE Append(DecDigits(n \div 10), 48 + (n % 10))

RECURSIVE ZeroPad(_, _)
\* s with '0' bytes put in front until it is w bytes wide.
ZeroPad(s, w) == IF Len(s) >= w THEN s ELSE ZeroPad(<<48>> \o s, w)

\* FormatWin without the zero padding: format!("{}", win).
FormatWin_NoPad(win) == DecDigits(win)

\* format!("{:03}", win) for an unsigned win.
FormatWin(win) == ZeroPad(DecDigits(win), 3)

\* format!("{:06}", value) with the zeros put in front of the sign.
FormatI64_06_PadBeforeSign(value) ==
    IF value < 0 THEN ZeroPad(<<45>> \o DecDigits(-value), 6)
    ELSE ZeroPad(DecDigits(value), 6)

\* format!("{:06}", value) for an i64: the zero flag is sign-aware, the
\* sign comes first and counts towards the width.
FormatI64_06(value) ==
    IF value < 0 THEN <<45>> \o ZeroPad(DecDigits(-value), 5)
    ELSE ZeroPad(DecDigits(value), 6)

\* ------------------------------------------------------------------- Data

\* struct Data { data_vec }
Data(data_vec) == [data_vec |-> data_vec]

\* Option<Data>
None == [some |-> FALSE, data_vec |-> <<>>]

Some(d) == [some |-> TRUE, data_vec |-> d.data_vec]

\* impl From<bool> for Data
Data_from_bool(value) == Data(IF value THEN <<49>> ELSE <<48>>)

\* try_from(i64) with 1_000_000 let through (> for >=).
Data_try_from_i64_Inclusive(value) ==
    IF value > 1000000 \/ value <= -100000
    THEN Err("IntValueOutOfRange", "", <<value, -10000, 100000>>)
    ELSE Ok(Data(FormatI64_06(value)))

\* impl TryFrom<i64> for Data
Data_try_from_i64(value) ==
    IF value >= 1000000 \/ value <= -100000
    THEN Err("IntValueOutOfRange", "", <<value, -10000, 100000>>)
    ELSE Ok(Data(FormatI64_06(value)))

\* try_from(&str) with the two checks in the other order.
Data_try_from_str_CharsFirst(value) ==
    IF ~(\A i \in 1..Len(value) : value[i] >= 32 /\ value[i] <= 95)
    THEN Err("InvalidArgument", "invalid character", <<>>)
    ELSE IF Len(value) > MAX_ALNUM_LEN
    THEN Err("InvalidArgument", "too long", <<Len(value)>>)
    ELSE Ok(Data(value))

\* impl TryFrom<&str> for Data (value as its bytes)
Data_try_from_str(value) ==
    IF Len(value) > MAX_ALNUM_LEN
    THEN Err("InvalidArgument", "too long", <<Len(value)>>)
    ELSE IF ~(\A i \in 1..Len(value) : value[i] >= 32 /\ value[i] <= 95)
    THEN Err("InvalidArgument", "invalid character", <<>>)
    ELSE Ok(Data(value))

\* --------------------------------------------------------- CommandPackage

\* CommandPackage::build_vec
build_vec(self) ==
    [self EXCEPT !.vec =
        <<self.stx, self.addr>> \o self.win \o <<self.com>>
        \o (IF self.data.some THEN self.data.data_vec ELSE <<>>)
        \o <<self.etx>> \o self.crc]

\* CommandPackage::calculate_crc with STX inside the checksummed slice.
CommandPackage_calculate_crc_WithStx(self) ==
    LET built == build_vec(self)
        crc_vec == Slice(built.vec, 0, Len(built.vec) - 2)
    IN  [built EXCEPT !.crc = calculate_crc(crc_vec)]

\* CommandPackage::calculate_crc
CommandPackage_calculate_crc(self) ==
    LET built == build_vec(self)
        crc_vec == Slice(built.vec, 1, Len(built.vec) - 2)
    IN  [built EXCEPT !.crc = calculate_crc(crc_vec)]

\* The result of an operation in which an addition on u8 went above 255:
\* the program aborts there when it was built with overflow checks (the dev
\* and test profiles), and goes on with the sum wrapped around, to the value
\* v, when it was built without (the release profile).
Overflow(v) ==
    [tag |-> "Overflow", kind |-> "", msg |-> "attempt to add with overflow",
     val |-> v]

\* What a result is in the two builds.
Builds(res) ==
    IF res.tag = "Overflow" THEN {Panic(res.msg), Ok(res.val)} ELSE {res}

\* a + b on u8, wrapped around
WrappingAddU8(a, b) == (a + b) % (U8_MAX + 1)

\* CommandPackage::new.  The result is Ok(package), the panic of line 146 or
\* the overflow of the addition of line 149.
new(cmd_type, win, data, addr) ==
    IF win > MAX_WIN THEN Panic("Window number must be between 0 and 999")
    ELSE
        LET command_package ==
                [stx |-> STX, addr |-> WrappingAddU8(ADDR_BASE, addr),
                 win |-> FormatWin(win),
                 com |-> cmd_type, data |-> data, etx |-> ETX,
                 crc |-> <<0, 0>>, vec |-> <<>>]
            built == build_vec(CommandPackage_calculate_crc(command_package))
        IN  IF ADDR_BASE + addr > U8_MAX THEN Overflow(built) ELSE Ok(built)

\* CommandPackage::new_read
new_read(win, addr) == new(COM_READ, win, None, addr)

\* CommandPackage::new_write
new_write(win, data, addr) == new(COM_WRITE, win, Some(data), addr)

\* CommandPackage::as_bytes
as_bytes(self) == self.vec

\* ------------------------------------------------------ str: UTF-8, trim

\* A UTF-8 continuation byte.
IsCont(b) == b >= 128 /\ b <= 191

\* The width of the well-formed UTF-8 sequence s starts with, 0 when s starts
\* with none: what str::from_utf8 accepts (no overlong forms, no surrogates,
\* nothing above U+10FFFF).
Utf8Width(s) ==
    LET n == Len(s)
        b1 == s[1]
    IN  IF n = 0 THEN 0
        ELSE IF b1 < 128 THEN 1
        ELSE IF b1 >= 194 /\ b1 <= 223
        THEN IF n >= 2 /\ IsCont(s[2]) THEN 2 ELSE 0
        ELSE IF b1 >= 224 /\ b1 <= 239
        THEN IF n >= 3 /\ IsCont(s[2]) /\ IsCont(s[3])
                /\ (b1 = 224 => s[2] >= 160)
                /\ (b1 = 237 => s[2] <= 159)
             THEN 3 ELSE 0
        ELSE IF b1 >= 240 /\ b1 <= 244
        THEN IF n >= 4 /\ IsCont(s[2]) /\ IsCont(s[3]) /\ IsCont(s[4])
                /\ (b1 = 240 => s[2] >= 144)
                /\ (b1 = 244 => s[2] <= 143)
             THEN 4 ELSE 0
        ELSE 0

RECURSIVE Utf8Valid(_)
\* str::from_utf8(s).is_ok()
Utf8Valid(s) ==
    IF s = <<>> THEN TRUE
    ELSE LET w == Utf8Width(s)
         IN  w > 0 /\ Utf8Valid(SubSeq(s, w + 1, Len(s)))

\* The UTF-8 encodings of the characters char::is_whitespace accepts
\* (Unicode White_Space).
WhiteSpace ==
    {<<9>>, <<10>>, <<11>>, <<12>>, <<13>>, <<32>>,
     <<194, 133>>, <<194, 160>>, <<225, 154, 128>>,
     <<226, 128, 168>>, <<226, 128, 169>>, <<226, 128, 175>>,
     <<226, 129, 159>>, <<227, 128, 128>>}
    \cup {<<226, 128, b>> : b \in 128..138}

StartsWith(s, p) == Len(p) <= Len(s) /\ SubSeq(s, 1, Len(p)) = p

EndsWith(s, p) ==
    Len(p) <= Len(s) /\ SubSeq(s, Len(s) - Len(p) + 1, Len(s)) = p

RECURSIVE TrimStart(_)
\* str::trim_start on a valid UTF-8 string
TrimStart(s) ==
    IF \E p \in WhiteSpace : StartsWith(s, p)
    THEN LET p == CHOOSE q \in WhiteSpace : StartsWith(s, q)
         IN  TrimStart(SubSeq(s, Len(p) + 1, Len(s)))
    ELSE s

RECURSIVE TrimEnd(_)
\* str::trim_end on a valid UTF-8 string
TrimEnd(s) ==
    IF \E p \in WhiteSpace : EndsWith(s, p)
    THEN LET p == CHOOSE q \in WhiteSpace : EndsWith(s, q)
         IN  TrimEnd(SubSeq(s, 1, Len(s) - Len(p)))
    ELSE s

\* str::trim
Trim(s) == TrimEnd(TrimStart(s))

\* ------------------------------------------------------------ str::parse

IsDigit(b) == b >= 48 /\ b <= 57

RECURSIVE DigitsValue(_, _)
\* The number the ASCII digits s denote, after the digits already read (acc).
DigitsValue(acc, s) ==
    IF s = <<>> THEN acc
    ELSE DigitsValue(10 * acc + (Head(s) - 48), Tail(s))

\* The result of a parse: ok with a value, or not ok.
Parsed(v) == [ok |-> TRUE, val |-> v]

NotParsed == [ok |-> FALSE, val |-> 0]

\* str::parse::<i64>: an optional '+' or '-', then one or more ASCII digits
\* and nothing else. (The strings of this model have fewer than 10 digits, so
\* the overflow error of the parse is out of their reach.)
ParseI64(s) ==
    IF s = <<>> THEN NotParsed
    ELSE
        LET signed == s[1] = 43 \/ s[1] = 45
            digits == IF signed THEN Tail(s) ELSE s
        IN  IF digits = <<>> THEN NotParsed
            ELSE IF \E i \in 1..Len(digits) : ~IsDigit(digits[i]) THEN NotParsed
            ELSE IF s[1] = 45 THEN Parsed(0 - DigitsValue(0, digits))
            ELSE Parsed(DigitsValue(0, digits))

RECURSIVE DigitRun(_, _)
\* How many ASCII digits s holds from position i on, before the first other
\* byte.
DigitRun(s, i) ==
    IF i > Len(s) \/ ~IsDigit(s[i]) THEN 0 ELSE 1 + DigitRun(s, i + 1)

RECURSIVE Normalize(_, _, _)
\* A decimal neg, mant * 10^exp with the trailing zeros of mant moved into
\* exp: equal numbers get equal records (-0.0 and 0.0 stay apart, as in f64).
Normalize(neg, mant, exp) ==
    IF mant = 0 THEN [class |-> "num", neg |-> neg, mant |-> 0, exp |-> 0]
    ELSE IF mant % 10 = 0 THEN Normalize(neg, mant \div 10, exp + 1)
    ELSE [class |-> "num", neg |-> neg, mant |-> mant, exp |-> exp]

\* s in lower case (ASCII letters only)
Lower(s) == [i \in 1..Len(s) |-> IF s[i] >= 65 /\ s[i] <= 90 THEN s[i] + 32 ELSE s[i]]

\* str::parse::<f64>: an optional sign, then digits with an optional '.' (at
\* least one digit in all) and an optional exponent [eE][+-]digits, or one of
\* inf, infinity, nan in any case; nothing may follow. The value is kept as
\* the decimal it denotes.
ParseF64(s) ==
    IF s = <<>> THEN NotParsed
    ELSE
        LET signed == s[1] = 43 \/ s[1] = 45
            neg == s[1] = 45
            t == IF signed THEN Tail(s) ELSE s
            n == Len(t)
            ni == DigitRun(t, 1)
            dot == ni + 1 <= n /\ t[ni + 1] = 46
            nf == IF dot THEN DigitRun(t, ni + 2) ELSE 0
            e == ni + (IF dot THEN 1 ELSE 0) + nf + 1
            hasexp == e <= n /\ (t[e] = 101 \/ t[e] = 69)
            esigned == hasexp /\ e + 1 <= n /\ (t[e + 1] = 43 \/ t[e + 1] = 45)
            eneg == esigned /\ t[e + 1] = 45
            ed == e + 1 + (IF esigned THEN 1 ELSE 0)
            ne == IF hasexp THEN DigitRun(t, ed) ELSE 0
            end == IF hasexp THEN ed + ne ELSE e
            mant == DigitsValue(0, SubSeq(t, 1, ni) \o SubSeq(t, ni + 2, ni + 1 + nf))
            eval == DigitsValue(0, SubSeq(t, ed, ed + ne - 1))
            exp == (IF eneg THEN 0 - eval ELSE eval) - nf
        IN  IF t = <<>> THEN NotParsed
            ELSE IF ni + nf > 0 /\ (hasexp => ne > 0) /\ end = n + 1
            THEN Parsed(Normalize(neg, mant, exp))
            ELSE IF Lower(t) = <<110, 97, 110>>
            THEN Parsed([class |-> "nan", neg |-> neg, mant |-> 0, exp |-> 0])
            ELSE IF Lower(t) = <<105, 110, 102>>
                    \/ Lower(t) = <<105, 110, 102, 105, 110, 105, 116, 121>>
            THEN Parsed([class |-> "inf", neg |-> neg, mant |-> 0, exp |-> 0])
            ELSE NotParsed

\* ------------------------------------------------------------ Data from f64

\* An f64 is kept as the shortest decimal that reads back as it, which is the
\* decimal Display prints: [class, neg, mant, exp] for (-1)^neg * mant *
\* 10^exp, mant without trailing zeros (as Normalize leaves it), or a NaN or
\* an infinity.
F64(neg, mant, exp) == Normalize(neg, mant, exp)

F64_NAN == [class |-> "nan", neg |-> FALSE, mant |-> 0, exp |-> 0]

F64_INFINITY == [class |-> "inf", neg |-> FALSE, mant |-> 0, exp |-> 0]

F64_NEG_INFINITY == [class |-> "inf", neg |-> TRUE, mant |-> 0, exp |-> 0]

\* The number of digits of the integer part of |value| (0 below 1): |value|
\* >= 10^k exactly when it has more than k of them.
IntDigitCount(value) ==
    IF value.mant = 0 THEN 0
    ELSE LET n == Len(DecDigits(value.mant)) + value.exp
         IN  IF n > 0 THEN n ELSE 0

\* value >= 1_000_000.0  (false for a NaN)
F64_ge_1e6(value) ==
    CASE value.class = "nan" -> FALSE
      [] value.class = "inf" -> ~value.neg
      [] OTHER -> ~value.neg /\ IntDigitCount(value) >= 7

\* value <= -100_000.0  (false for a NaN)
F64_le_neg_1e5(value) ==
    CASE value.class = "nan" -> FALSE
      [] value.class = "inf" -> value.neg
      [] OTHER -> value.neg /\ IntDigitCount(value) >= 6

\* n  '0' bytes
Zeros(n) == [i \in 1..n |-> 48]

\* Display of a finite f64 without its sign: the digits of the integer part,
\* and '.' and the digits of the fraction when there is one; no exponent.
DisplayF64Abs(value) ==
    LET digits == DecDigits(value.mant)
        n == Len(digits)
        k == 0 - value.exp
    IN  IF value.exp >= 0 THEN
            IF value.mant = 0 THEN <<48>> ELSE digits \o Zeros(value.exp)
        ELSE IF n > k THEN SubSeq(digits, 1, n - k) \o <<46>> \o SubSeq(digits, n - k + 1, n)
        ELSE <<48, 46>> \o Zeros(k - n) \o digits

\* format!("{:06}", value) for an f64: the sign first, then zeros up to the
\* width; "NaN" and "inf" are padded as numbers are.
FormatF64_06(value) ==
    LET sign == IF value.neg /\ value.class # "nan" THEN <<45>> ELSE <<>>
        body == CASE value.class = "nan" -> <<78, 97, 78>>
                  [] value.class = "inf" -> <<105, 110, 102>>
                  [] OTHER -> DisplayF64Abs(value)
    IN  sign \o ZeroPad(body, 6 - Len(sign))

\* Vec::truncate(len)
Truncate(v, len) == IF Len(v) > len THEN SubSeq(v, 1, len) ELSE v

\* try_from(f64) without  data_vec.truncate(6).
Data_try_from_f64_NoTruncate(value) ==
    IF F64_ge_1e6(value) \/ F64_le_neg_1e5(value)
    THEN Err("FloatValueOutOfRange", "", <<value, -10000, 100000>>)
    ELSE
        LET data_vec == FormatF64_06(value)
        IN  IF data_vec # <<>> /\ data_vec[Len(data_vec)] = 46
            THEN Ok(Data(<<48>> \o SubSeq(data_vec, 1, Len(data_vec) - 1)))
            ELSE Ok(Data(data_vec))

\* impl TryFrom<f64> for Data
Data_try_from_f64(value) ==
    IF F64_ge_1e6(value) \/ F64_le_neg_1e5(value)
    THEN Err("FloatValueOutOfRange", "", <<value, -10000, 100000>>)
    ELSE
        LET data_vec == Truncate(FormatF64_06(value), 6)
        IN  IF data_vec # <<>> /\ data_vec[Len(data_vec)] = 46
            THEN Ok(Data(<<48>> \o SubSeq(data_vec, 1, Len(data_vec) - 1)))
            ELSE Ok(Data(data_vec))

\* ------------------------------------------------------------ ReadPackage

\* try_new comparing the first checksum byte only.
ReadPackage_try_new_FirstCrcByte(data) ==
    IF Len(data) < MIN_PKG_LEN THEN Err("PackageInvalid", "too short", data)
    ELSE
        LET crc_rec == Slice(data, Len(data) - 2, Len(data))
            crc_exp == calculate_crc(Slice(data, 1, Len(data) - 2))
        IN  IF crc_rec[1] # crc_exp[1] THEN Err("ChecksumInvalid", "", <<>>)
            ELSE Ok([data |-> Slice(data, 2, Len(data) - 3)])

\* try_new without its length check.
ReadPackage_try_new_NoLenCheck(data) ==
    IF ~InRange(data, Len(data) - 2, Len(data))
       \/ ~InRange(data, 1, Len(data) - 2)
    THEN Panic("slice index out of range")
    ELSE
        LET crc_rec == Slice(data, Len(data) - 2, Len(data))
            crc_exp == calculate_crc(Slice(data, 1, Len(data) - 2))
        IN  IF crc_rec # crc_exp THEN Err("ChecksumInvalid", "", <<>>)
            ELSE IF ~InRange(data, 2, Len(data) - 3)
            THEN Panic("slice index out of range")
            ELSE Ok([data |-> Slice(data, 2, Len(data) - 3)])

\* try_new keeping the address byte: data[1..len-3].
ReadPackage_try_new_KeepAddr(data) ==
    IF Len(data) < MIN_PKG_LEN THEN Err("PackageInvalid", "too short", data)
    ELSE
        LET crc_rec == Slice(data, Len(data) - 2, Len(data))
            crc_exp == calculate_crc(Slice(data, 1, Len(data) - 2))
        IN  IF crc_rec # crc_exp THEN Err("ChecksumInvalid", "", <<>>)
            ELSE Ok([data |-> Slice(data, 1, Len(data) - 3)])

\* ReadPackage::try_new.  Every slice expression is evaluated as Rust does:
\* with its bounds check, which aborts when it fails.
ReadPackage_try_new(data) ==
    IF Len(data) < MIN_PKG_LEN THEN Err("PackageInvalid", "too short", data)
    ELSE IF ~InRange(data, Len(data) - 2, Len(data))
         \/ ~InRange(data, 1, Len(data) - 2)
    THEN Panic("slice index out of range")
    ELSE
        LET crc_rec == Slice(data, Len(data) - 2, Len(data))
            crc_exp == calculate_crc(Slice(data, 1, Len(data) - 2))
        IN  IF crc_rec # crc_exp THEN Err("ChecksumInvalid", "", <<>>)
            ELSE IF ~InRange(data, 2, Len(data) - 3)
            THEN Panic("slice index out of range")
            ELSE Ok([data |-> Slice(data, 2, Len(data) - 3)])

\* ack_pkg with the arm of 0x33 missing from its table.
ack_pkg_NoDataTypeError(self) ==
    LET chk == self.data[1]
    IN  IF chk # ACK
        THEN Err("NotAcknowledged",
                 CASE chk = 21 -> "NACK"
                   [] chk = 50 -> "Unknown Window"
                   [] chk = 53 -> "Win disabled"
                   [] OTHER -> "Unknown Error",
                 <<>>)
        ELSE Ok(<<>>)

\* ReadPackage::ack_pkg
ack_pkg(self) ==
    IF Len(self.data) < 1 THEN Panic("index out of bounds")
    ELSE
        LET chk == self.data[1]
        IN  IF chk # ACK
            THEN Err("NotAcknowledged",
                     CASE chk = 21 -> "NACK"
                       [] chk = 50 -> "Unknown Window"
                       [] chk = 51 -> "Data Type Error"
                       [] chk = 53 -> "Win disabled"
                       [] OTHER -> "Unknown Error",
                     <<>>)
            ELSE Ok(<<>>)

\* body_str skipping 3 bytes, the window alone.
body_str_Skip3(self) ==
    IF ~InRange(self.data, 3, Len(self.data))
    THEN Panic("slice start index out of range")
    ELSE
        LET bytes == Slice(self.data, 3, Len(self.data))
        IN  IF ~Utf8Valid(bytes)
            THEN Err("ResponseParseError", "Invalid UTF8", <<>>)
            ELSE Ok(bytes)

\* The bytes after the echoed window and command of a package, as the three
\* accessors take them:  str::from_utf8(&self.data[4..]).
body_str(self) ==
    IF ~InRange(self.data, HEADER_SKIP, Len(self.data))
    THEN Panic("slice start index out of range")
    ELSE
        LET bytes == Slice(self.data, HEADER_SKIP, Len(self.data))
        IN  IF ~Utf8Valid(bytes)
            THEN Err("ResponseParseError", "Invalid UTF8", <<>>)
            ELSE Ok(bytes)

\* ReadPackage::int_pkg
int_pkg(self) ==
    LET s == body_str(self)
    IN  IF s.tag # "Ok" THEN s
        ELSE LET val == ParseI64(Trim(s.val))
             IN  IF ~val.ok THEN Err("ResponseParseError", "", s.val)
                 ELSE Ok(val.val)

\* ReadPackage::float_pkg
float_pkg(self) ==
    LET s == body_str(self)
    IN  IF s.tag # "Ok" THEN s
        ELSE LET val == ParseF64(Trim(s.val))
             IN  IF ~val.ok THEN Err("ResponseParseError", "", s.val)
                 ELSE Ok(val.val)

\* ReadPackage::alphanumeric_pkg
alphanumeric_pkg(self) ==
    LET s == body_str(self)
    IN  IF s.tag # "Ok" THEN s ELSE Ok(Trim(s.val))

pkgvars == <<step, args, cmd, raw, pkg, ret>>

drvvars == <<lock, pc, call, buf, result, wire, log, calls>>

unitvars == <<unit, inst_unit, method, sent>>

lbkvars == <<lbk, lbk_io>>

chanvars == <<num_channels, channels, chan_ret>>

othervars == <<unitvars, lbkvars, chanvars>>

vars == <<step, args, cmd, raw, pkg, ret, lock, pc, call, buf, result, wire, log,
          calls, unit, inst_unit, method, sent, lbk, lbk_io, num_channels, channels,
          chan_ret>>

NoArgs == [kind |-> "none", win |-> 0, addr |-> 0, data |-> <<>>]

NoRet == [op |-> "none", res |-> NoResult]

InitPkg ==
    /\ step = "start"
    /\ args = NoArgs
    /\ cmd = NoResult
    /\ raw = <<>>
    /\ pkg = NoResult
    /\ ret = NoRet

\* The handles (instrument clones, channels) that share one transport.
Handles == 1..NumHandles

NoCall == [fn |-> "none", frame |-> <<>>, id |-> 0, device_address |-> 0]

InitDrv ==
    /\ lock = 0
    /\ pc = [h \in Handles |-> "idle"]
    /\ call = [h \in Handles |-> NoCall]
    /\ buf = [h \in Handles |-> <<>>]
    /\ result = [h \in Handles |-> NoResult]
    /\ wire = <<>>
    /\ log = <<>>
    /\ calls = 0

\* The method a handle is in: its name and argument, where it is (in its
\* sendcmd / query, before its lock of self.unit, before the second lock of
\* get_unit, done), the value it parsed and what it returned; and noted
\* beside it the cached unit when it was called, the unit the instrument had
\* when it answered and the unit the method took from the cache.
NoMethod ==
    [name |-> "none", arg |-> "", at |-> "done", val |-> "", out |-> NoResult,
     was |-> "", answered_in |-> "", used |-> ""]

\* The instrument is set to mBar, and the handles hold that unit, as after a
\* construction.
InitUnit ==
    /\ unit = "mBar"
    /\ inst_unit = "mBar"
    /\ method = [h \in Handles |-> NoMethod]
    /\ sent = <<>>

NoLbk ==
    [from_host |-> <<>>, from_inst |-> <<>>, from_host_index |-> 0,
     from_inst_index |-> 0, curr_bytes |-> <<>>]

NoIo == [op |-> "none", res |-> NoResult, written |-> 0, read |-> 0]

InitLbk ==
    /\ lbk = NoLbk
    /\ lbk_io = NoIo

\* Agilent4Uhv::try_new_with_address sets num_channels: 4, Tpg36x::try_new
\* num_channels: 2.
InitChan ==
    /\ num_channels = [Agilent4Uhv |-> 4, Tpg36x |-> 2]
    /\ channels = {}
    /\ chan_ret = [inst |-> "none", op |-> "none", arg |-> 0, was |-> 0,
                   res |-> NoResult]

Init == InitPkg /\ InitDrv /\ InitUnit /\ InitLbk /\ InitChan

\* ----------------------------------------------------------------- inputs

\* The address check of try_new_with_address letting every u8 through.
MAX_ADDR_AnyU8 == U8_MAX

MAX_ADDR == 31

\* All sequences over the set B of at most n elements.
SeqsUpTo(B, n) == UNION {[1..k -> B] : k \in 0..n}

\* Window numbers given to new_read: every valid one and the first invalid one.
WinInputs == 0..(MAX_WIN + 1)

\* Window numbers given to new_write: the windows the driver writes, the
\* ends of the valid range and the first invalid one.
WriteWinInputs == {0, 9, 11, 12, 13, 14, 99, 100, 600, MAX_WIN, MAX_WIN + 1}

AddrInputs == 0..MAX_ADDR

\* Every value of the address byte, addr: u8.
AllAddrInputs == 0..U8_MAX

IntInputs == {-100000, -99999, -12345, -1, 0, 1, 2, 42, 99999, 999999, 1000000}

StrBytes == {32, 65, 95, 97}

\* The payloads a caller can hand to new_write: the successfully constructed
\* ones.
Payloads ==
    {Data_from_bool(b) : b \in BOOLEAN}
    \cup {Data_try_from_i64(v).val :
            v \in {x \in IntInputs : Data_try_from_i64(x).tag = "Ok"}}
    \cup {Data_try_from_str(t).val :
            t \in {x \in SeqsUpTo(StrBytes, MaxStr) : Data_try_from_str(x).tag = "Ok"}}

\* ------------------------------------------------- inputs of the encoder

\* How far around each pivot the integers handed to try_from(i64) reach.
I64Span == 100

\* The ends of the accepted range, the powers of ten where the width of the
\* number changes, and zero.
I64Pivots == {-100000, -10000, -1000, 0, 1000, 10000, 100000, 1000000}

\* The integers handed to try_from(i64): those around the pivots, and the
\* largest and smallest this model can hold.
I64Inputs ==
    UNION {(p - I64Span)..(p + I64Span) : p \in I64Pivots}
    \cup {-2147483647, -12345, 12345, 2147483647}

\* The floats handed to try_from(f64): the values of the tests, the ends of
\* the accepted range, values whose sixth byte is the '.', small values, both
\* zeros, both infinities and a NaN.
F64Inputs ==
    {F64(FALSE, 12345, -2), F64(FALSE, 123456789, -6), F64(TRUE, 123456789, -6),
     F64(FALSE, 0, 0), F64(TRUE, 0, 0), F64(FALSE, 42, 0), F64(FALSE, 423, -1),
     F64(FALSE, 999999999, -3), F64(TRUE, 999999999, -4), F64(FALSE, 999999, -1),
     F64(FALSE, 999999, 0), F64(TRUE, 99999, 0), F64(FALSE, 1, 6), F64(TRUE, 1, 5),
     F64(FALSE, 10000001, -1), F64(TRUE, 1000001, -1), F64(FALSE, 1, 9),
     F64(FALSE, 123456, -1), F64(TRUE, 12345, -1), F64(TRUE, 123456, -1),
     F64(FALSE, 5, -1), F64(TRUE, 5, -1), F64(FALSE, 1, -7), F64(TRUE, 1, -7),
     F64(FALSE, 123, -5), F64(FALSE, 12345, 0), F64(TRUE, 1, 0),
     F64_NAN, F64_INFINITY, F64_NEG_INFINITY}

\* Longest string handed to try_from(&str).
MaxLongStr == 50

\* Longest payload the instrument sends back in a response frame.
MaxEcho == 6

StrTestBytes == {31, 32, 65, 95, 96, 97}

\* n times the bytes of c
Repeat(c, n) == [i \in 1..(n * Len(c)) |-> c[((i - 1) % Len(c)) + 1]]

\* The strings handed to try_from(&str), as their bytes: the short ones over
\* bytes at and next to the ends of 0x20..=0x5F, the long ones of one valid
\* byte, alone and followed by an invalid byte, the test's "HELLO_123", and
\* strings of a two-byte character (U+00E9), whose byte length is twice their
\* number of characters.
StrInputs ==
    SeqsUpTo(StrTestBytes, MaxStr)
    \cup {Repeat(<<c>>, n) : c \in {32, 65, 95}, n \in (MAX_ALNUM_LEN - 2)..MaxLongStr}
    \cup {Append(Repeat(<<65>>, n), c) :
            c \in {31, 96, 97}, n \in (MAX_ALNUM_LEN - 2)..(MaxLongStr - 1)}
    \cup {<<72, 69, 76, 76, 79, 95, 49, 50, 51>>}
    \cup {Repeat(<<195, 169>>, n) : n \in {1, 24, 25}}

\* The response frame that carries data_vec as its DATA field, after the
\* window and the command byte echoed: add_crc of the tests.
ResponseFrame(addr, win, data_vec) ==
    LET body == <<STX, ADDR_BASE + addr>> \o FormatWin(win) \o <<COM_WRITE>>
                \o data_vec \o <<ETX>>
    IN  body \o calculate_crc(Tail(body))

\* ---------------------------------------------- received frames (inputs)

\* The arguments given to new_write: every payload at the chosen windows
\* and every address, and every window with a logic payload at the first
\* and the last address.
WriteInputs ==
    [win : WriteWinInputs, data : Payloads, addr : AddrInputs]
    \cup [win : WinInputs, data : {Data_from_bool(TRUE)}, addr : {0, MAX_ADDR}]
    \cup [win : WriteWinInputs,
          data : {Data_from_bool(TRUE), Data_try_from_i64(-1).val},
          addr : AllAddrInputs]

\* The arguments given to new_read: every window at the addresses of the
\* driver, and every address byte at the chosen windows.
ReadInputs ==
    [win : WinInputs, addr : AddrInputs]
    \cup [win : WriteWinInputs, addr : AllAddrInputs]

RawBytes == {STX, ETX, ACK, ADDR_BASE}

\* Any bytes at all, short and long enough.
ArbitraryInputs == SeqsUpTo(RawBytes, MaxRaw)

\* The checksum bytes a frame body (STX..ETX) can come with: the right ones,
\* and the right ones with the first, the last or both bytes changed.
Corrupt(b) == IF b = 48 THEN 49 ELSE 48

CrcVariants(body) ==
    LET good == calculate_crc(Tail(body))
    IN  {good, <<Corrupt(good[1]), good[2]>>, <<good[1], Corrupt(good[2])>>,
         <<Corrupt(good[1]), Corrupt(good[2])>>}

Framed(bodies) == UNION {{b \o c : c \in CrcVariants(b)} : b \in bodies}

\* The answer to a write: STX, ADDR, one status byte, ETX.
AckBodies == {<<STX, ADDR_BASE + a, code, ETX>> : a \in {0, 13}, code \in 0..255}

\* Frames whose body is shorter than window + command.
ShortBodies ==
    {<<STX, ADDR_BASE>> \o x \o <<ETX>> : x \in SeqsUpTo({ACK, 49}, HEADER_SKIP)}

\* Frames too short to hold a status byte, with their checksum.
TinyBodies == {<<STX>> \o x : x \in SeqsUpTo({ADDR_BASE, ETX}, 2)}

\* The answer to a read: STX, ADDR, the window and the command echoed, DATA,
\* ETX.
DataBytes == {9, 32, 45, 46, 49, 69, 160, 194}

DataHeaders == {FormatWin(600) \o <<COM_WRITE>>, FormatWin(812) \o <<COM_READ>>}

DataBodies ==
    {<<STX, ADDR_BASE>> \o h \o d \o <<ETX>> :
        h \in DataHeaders, d \in SeqsUpTo(DataBytes, MaxData)}

RawInputs ==
    ArbitraryInputs
    \cup Framed(TinyBodies \cup AckBodies \cup ShortBodies \cup DataBodies)

\* Frames that try_new accepts, to have one byte replaced: an ACK and a NACK
\* at two addresses, the unit and a pressure as the tests have them.
AcceptedFrames ==
    {b \o calculate_crc(Tail(b)) :
        b \in {<<STX, ADDR_BASE + a, code, ETX>> : a \in {0, 13}, code \in {ACK, 21}}}
    \cup {ResponseFrame(0, 600, FormatI64_06(1)),
          ResponseFrame(13, 812, <<49, 46, 50, 69, 45, 57>>)}

\* Response frames of two lengths that the instrument queues for readers:
\* an acknowledgement and an answer carrying data.
QueuedFrames ==
    {<<STX, ADDR_BASE, ACK, ETX>> \o calculate_crc(<<ADDR_BASE, ACK, ETX>>),
     ResponseFrame(0, 600, FormatI64_06(1))}

\* ------------------------------------------------- actions: command package

\* let cmd = CommandPackage::new_read(win, addr);
NewRead ==
    /\ step = "start"
    /\ \E inp \in ReadInputs :
        /\ step' = "built"
        /\ args' = [kind |-> "read", win |-> inp.win, addr |-> inp.addr,
                    data |-> <<>>]
        /\ cmd' \in Builds(new_read(inp.win, inp.addr))
    /\ UNCHANGED <<raw, pkg, ret>>
    /\ UNCHANGED drvvars
    /\ UNCHANGED othervars

\* let cmd = CommandPackage::new_write(win, data, addr);
NewWrite ==
    /\ step = "start"
    /\ \E inp \in WriteInputs :
        /\ step' = "built"
        /\ args' = [kind |-> "write", win |-> inp.win, addr |-> inp.addr,
                    data |-> inp.data.data_vec]
        /\ cmd' \in Builds(new_write(inp.win, inp.data, inp.addr))
    /\ UNCHANGED <<raw, pkg, ret>>
    /\ UNCHANGED drvvars
    /\ UNCHANGED othervars

\* cmd.as_bytes(), any number of times; the frame is sent back as it is (a
\* loopback), to the parser.
AsBytes ==
    /\ step \in {"built", "received"}
    /\ args.kind # "none"
    /\ cmd.tag = "Ok"
    /\ step' = "received"
    /\ raw' = as_bytes(cmd.val)
    /\ UNCHANGED <<args, cmd, pkg, ret>>
    /\ UNCHANGED drvvars
    /\ UNCHANGED othervars

\* --------------------------------------------------- actions: read package

\* The bytes of one frame arrive.
Receive ==
    /\ step = "start"
    /\ \E bytes \in RawInputs :
        /\ step' = "received"
        /\ raw' = bytes
    /\ UNCHANGED <<args, cmd, pkg, ret>>
    /\ UNCHANGED drvvars
    /\ UNCHANGED othervars

\* The bytes of a frame that try_new accepts arrive.
ReceiveAccepted ==
    /\ step = "start"
    /\ \E bytes \in AcceptedFrames :
        /\ step' = "received"
        /\ raw' = bytes
    /\ UNCHANGED <<args, cmd, pkg, ret>>
    /\ UNCHANGED drvvars
    /\ UNCHANGED othervars

\* The frame just accepted arrives once more with the byte at index idx
\* (from 1, any byte but STX) replaced by another byte value.
ReplaceByte ==
    /\ step = "parsed" /\ pkg.tag = "Ok" /\ args.kind = "none"
    /\ \E idx \in 1..(Len(raw) - 1) :
        \E byte \in (0..U8_MAX) \ {raw[idx + 1]} :
            /\ raw' = [raw EXCEPT ![idx + 1] = byte]
            /\ args' = [kind |-> "replaced", win |-> 0, addr |-> 0,
                        data |-> <<raw, idx>>]
    /\ step' = "received"
    /\ UNCHANGED <<cmd, pkg, ret>>
    /\ UNCHANGED drvvars
    /\ UNCHANGED othervars

\* ReadPackage::try_new(&raw)
TryNew ==
    /\ step = "received"
    /\ step' = "parsed"
    /\ pkg' = ReadPackage_try_new(raw)
    /\ UNCHANGED <<args, cmd, raw, ret>>
    /\ UNCHANGED drvvars
    /\ UNCHANGED othervars

\* One accessor is called on the package try_new returned.
AckPkg ==
    /\ step = "parsed" /\ pkg.tag = "Ok"
    /\ step' = "read"
    /\ ret' = [op |-> "ack_pkg", res |-> ack_pkg(pkg.val)]
    /\ UNCHANGED <<args, cmd, raw, pkg>>
    /\ UNCHANGED drvvars
    /\ UNCHANGED othervars

IntPkg ==
    /\ step = "parsed" /\ pkg.tag = "Ok"
    /\ step' = "read"
    /\ ret' = [op |-> "int_pkg", res |-> int_pkg(pkg.val)]
    /\ UNCHANGED <<args, cmd, raw, pkg>>
    /\ UNCHANGED drvvars
    /\ UNCHANGED othervars

FloatPkg ==
    /\ step = "parsed" /\ pkg.tag = "Ok"
    /\ step' = "read"
    /\ ret' = [op |-> "float_pkg", res |-> float_pkg(pkg.val)]
    /\ UNCHANGED <<args, cmd, raw, pkg>>
    /\ UNCHANGED drvvars
    /\ UNCHANGED othervars

AlphanumericPkg ==
    /\ step = "parsed" /\ pkg.tag = "Ok"
    /\ step' = "read"
    /\ ret' = [op |-> "alphanumeric_pkg", res |-> alphanumeric_pkg(pkg.val)]
    /\ UNCHANGED <<args, cmd, raw, pkg>>
    /\ UNCHANGED drvvars
    /\ UNCHANGED othervars

\* ------------------------------------------------------------ enum codes

\* The wire code of a Unit counted from one.
UnitCode_FromOne(u) ==
    CASE u = "Torr" -> 1
      [] u = "mBar" -> 2
      [] u = "Pa" -> 3

\* The wire code of a Unit (enum Unit, `unit as i64`).
UnitCode(u) ==
    CASE u = "Torr" -> 0
      [] u = "mBar" -> 1
      [] u = "Pa" -> 2

\* The wire code of an HvState (enum HvState, `state as i64`).
HvStateCode(state) ==
    CASE state = "Off" -> 0
      [] state = "On" -> 1

\* Result::expect(msg): the value, or a panic with msg.
Expect(res, msg) == IF res.tag = "Ok" THEN res ELSE Panic(msg)

\* The Unit of a wire code.
UnitOfCode(code) ==
    CASE code = 0 -> "Torr"
      [] code = 1 -> "mBar"
      [] code = 2 -> "Pa"

\* Agilent4Uhv::update_unit, from what its query returned: the unit to store,
\* or the error.
update_unit(resp) ==
    IF resp.tag # "Ok" THEN resp
    ELSE IF int_pkg(resp.val).tag # "Ok" THEN int_pkg(resp.val)
    ELSE IF int_pkg(resp.val).val \in {0, 1, 2}
    THEN Ok(UnitOfCode(int_pkg(resp.val).val))
    ELSE Err("ResponseParseError", "Invalid unit received from instrument", <<>>)

\* Channel::get_hv_state, from what its query returned.
get_hv_state(resp) ==
    IF resp.tag # "Ok" THEN resp
    ELSE IF int_pkg(resp.val).tag # "Ok" THEN int_pkg(resp.val)
    ELSE IF int_pkg(resp.val).val = 0 THEN Ok("Off")
    ELSE IF int_pkg(resp.val).val = 1 THEN Ok("On")
    ELSE Err("ResponseParseError", "Invalid HV state received from instrument", <<>>)

\* ------------------------------------------------------ actions: encoder

\* The arguments of a conversion into Data: its kind and its input.
DataArgs(kind, value) == [kind |-> kind, win |-> 0, addr |-> 0, data |-> <<value>>]

\* Data::from(value) for a bool
FromBool ==
    /\ step = "start"
    /\ \E value \in BOOLEAN :
        /\ args' = DataArgs("bool", value)
        /\ cmd' = Ok(Data_from_bool(value))
    /\ step' = "encoded"
    /\ UNCHANGED <<raw, pkg, ret>>
    /\ UNCHANGED drvvars
    /\ UNCHANGED othervars

\* Data::try_from(value) for an i64
TryFromI64 ==
    /\ step = "start"
    /\ \E value \in I64Inputs :
        /\ args' = DataArgs("i64", value)
        /\ cmd' = Data_try_from_i64(value)
    /\ step' = "encoded"
    /\ UNCHANGED <<raw, pkg, ret>>
    /\ UNCHANGED drvvars
    /\ UNCHANGED othervars

\* Data::try_from(value) for an f64
TryFromF64 ==
    /\ step = "start"
    /\ \E value \in F64Inputs :
        /\ args' = DataArgs("f64", value)
        /\ cmd' = Data_try_from_f64(value)
    /\ step' = "encoded"
    /\ UNCHANGED <<raw, pkg, ret>>
    /\ UNCHANGED drvvars
    /\ UNCHANGED othervars

\* Data::try_from(value) for a &str
TryFromStr ==
    /\ step = "start"
    /\ \E value \in StrInputs :
        /\ args' = DataArgs("str", value)
        /\ cmd' = Data_try_from_str(value)
    /\ step' = "encoded"
    /\ UNCHANGED <<raw, pkg, ret>>
    /\ UNCHANGED drvvars
    /\ UNCHANGED othervars

\* Data::from(unit) for a Unit
FromUnit ==
    /\ step = "start"
    /\ \E u \in {"Torr", "mBar", "Pa"} :
        /\ args' = DataArgs("unit", u)
        /\ cmd' = Expect(Data_try_from_i64(UnitCode(u)), "Always within range")
    /\ step' = "encoded"
    /\ UNCHANGED <<raw, pkg, ret>>
    /\ UNCHANGED drvvars
    /\ UNCHANGED othervars

\* Data::from(state) for an HvState
FromHvState ==
    /\ step = "start"
    /\ \E state \in {"Off", "On"} :
        /\ args' = DataArgs("hv_state", state)
        /\ cmd' = Expect(Data_try_from_i64(HvStateCode(state)), "Always within range")
    /\ step' = "encoded"
    /\ UNCHANGED <<raw, pkg, ret>>
    /\ UNCHANGED drvvars
    /\ UNCHANGED othervars

\* update_unit reads the unit out of the package its query returned.
UpdateUnit ==
    /\ step = "parsed" /\ pkg.tag = "Ok"
    /\ step' = "read"
    /\ ret' = [op |-> "update_unit", res |-> update_unit(pkg)]
    /\ UNCHANGED <<args, cmd, raw, pkg>>
    /\ UNCHANGED drvvars
    /\ UNCHANGED othervars

\* get_hv_state reads the state out of the package its query returned.
GetHvState ==
    /\ step = "parsed" /\ pkg.tag = "Ok"
    /\ step' = "read"
    /\ ret' = [op |-> "get_hv_state", res |-> get_hv_state(pkg)]
    /\ UNCHANGED <<args, cmd, raw, pkg>>
    /\ UNCHANGED drvvars
    /\ UNCHANGED othervars

\* The instrument sends a payload of at most MaxEcho bytes back as the DATA
\* of a response frame.
Respond ==
    /\ step = "encoded"
    /\ cmd.tag = "Ok"
    /\ Len(cmd.val.data_vec) <= MaxEcho
    /\ step' = "received"
    /\ raw' = ResponseFrame(0, 600, cmd.val.data_vec)
    /\ UNCHANGED <<args, cmd, pkg, ret>>
    /\ UNCHANGED drvvars
    /\ UNCHANGED othervars

\* ------------------------------------------------------------ the driver

\* impl From<Unit> for Data
Data_from_Unit(u) == Data_try_from_i64(UnitCode(u)).val

\* The sendcmd and query calls of the driver that the handles make: set_unit
\* (a write of window 600), update_unit (a read of window 600) and get_name
\* (a read of window 319), device address 0.
DriverCalls ==
    {[fn |-> "sendcmd", frame |-> as_bytes(new_write(600, Data_from_Unit(u), 0).val)] :
        u \in {"Torr", "Pa"}}
    \cup {[fn |-> "query", frame |-> as_bytes(new_read(w, 0).val)] : w \in {600, 319}}

\* The frames the instrument answers a command frame with: to a write an
\* acknowledgment (ACK) or a refusal (NACK), to a read the window and a
\* command byte echoed and the data.
DeviceReplies(frame) ==
    LET addr == frame[2]
        win == SubSeq(frame, 3, 5)
        bodies ==
            IF frame[6] = COM_WRITE
            THEN {<<STX, addr, ACK, ETX>>, <<STX, addr, 21, ETX>>}
            ELSE {<<STX, addr>> \o win \o <<COM_WRITE>> \o FormatI64_06(1) \o <<ETX>>}
    IN  {b \o calculate_crc(Tail(b)) : b \in bodies}

\* What arrives when the line or the instrument is not well: an
\* acknowledgment with a checksum byte changed, a frame cut down to STX, ETX
\* and two checksum bytes, and to a read a well-formed frame whose data is
\* the code of no unit, and a NACK.
BadReplies(frame) ==
    {<<STX, frame[2], ACK, ETX>>
        \o <<calculate_crc(<<frame[2], ACK, ETX>>)[1],
             Corrupt(calculate_crc(<<frame[2], ACK, ETX>>)[2])>>,
     <<STX, ETX>> \o calculate_crc(<<ETX>>)}
    \cup (IF frame[6] = COM_WRITE THEN {}
          ELSE {ResponseFrame(frame[2] - ADDR_BASE,
                              DigitsValue(0, SubSeq(frame, 3, 5)), FormatI64_06(7)),
                <<STX, frame[2], 21, ETX>> \o calculate_crc(<<frame[2], 21, ETX>>)})

\* The entry of the log for one call on the transport: the handle and the
\* sendcmd / query call it is in, the method called, and the bytes written,
\* the byte read or the error returned; last marks the read_exact that ends
\* a frame read (the second checksum byte).
Event(h, op, last, data) ==
    [h |-> h, id |-> call[h].id, op |-> op, last |-> last, data |-> data]

\* The errors the transport returns from write_raw and read_exact:
\* InstrumentError::Io.
TransportErrors == {Err("Io", "timed out", <<>>), Err("Io", "broken pipe", <<>>)}

\* The ? operator on Err(e) with the error type of the function: the
\* conversion From<InstrumentError> for InstrumentError, a wrapper of e.
From_InstrumentError_Wrapped(e) == Err("InstrumentStatus", e.msg, <<>>)

\* The ? operator on Err(e) with the error type of the function: the
\* conversion From<InstrumentError> for InstrumentError, which is e.
From_InstrumentError(e) == e

\* read_package with one read_exact after ETX instead of two.
AfterRead_OneCrcByte(at, byte) ==
    IF at = "read_byte" /\ byte # ETX THEN "read_byte"
    ELSE IF at = "read_byte" THEN "read_crc2"
    ELSE "unlock_read"

\* read_package leaving its block at ETX, the checksum unread.
AfterRead_NoCrc(at, byte) ==
    IF at = "read_byte" /\ byte # ETX THEN "read_byte"
    ELSE "unlock_read"

\* read_package: where the function is after a read_exact at position at
\* that gave byte: in the loop until ETX, then at the two reads of the
\* checksum, then out of the loop.
AfterRead(at, byte) ==
    IF at = "read_byte" /\ byte # ETX THEN "read_byte"
    ELSE IF at = "read_byte" THEN "read_crc1"
    ELSE IF at = "read_crc1" THEN "read_crc2"
    ELSE "unlock_read"

\* Whether an instrument was constructed in this run.
Constructed == \E g \in Handles : call[g].fn = "try_new_with_address"

\* A handle calls sendcmd or query with a command package.
Call(h) ==
    /\ pc[h] = "idle"
    /\ calls < MaxCalls
    /\ ~Constructed
    /\ \E c \in DriverCalls :
        call' = [call EXCEPT ![h] =
                    [fn |-> c.fn, frame |-> c.frame, id |-> calls + 1,
                     device_address |-> 0]]
    /\ calls' = calls + 1
    /\ pc' = [pc EXCEPT ![h] = "lock_write"]
    /\ buf' = [buf EXCEPT ![h] = <<>>]
    /\ result' = [result EXCEPT ![h] = NoResult]
    /\ UNCHANGED <<lock, wire, log>>
    /\ UNCHANGED pkgvars
    /\ UNCHANGED othervars

\* sendcmd / query:  let mut intf = intf.lock()
LockForWrite(h) ==
    /\ pc[h] = "lock_write"
    /\ lock = 0
    /\ lock' = h
    /\ pc' = [pc EXCEPT ![h] = "write_raw"]
    /\ UNCHANGED <<call, buf, result, wire, log, calls>>
    /\ UNCHANGED pkgvars
    /\ UNCHANGED othervars

\* sendcmd / query:  intf.write_raw(cmd.as_bytes())?  The instrument answers
\* the frame.
WriteRaw(h) ==
    /\ pc[h] = "write_raw"
    /\ lock = h
    /\ \E reply \in DeviceReplies(call[h].frame) : wire' = wire \o reply
    /\ log' = Append(log, Event(h, "write_raw", FALSE, call[h].frame))
    /\ pc' = [pc EXCEPT ![h] = "unlock_write"]
    /\ UNCHANGED <<lock, call, buf, result, calls>>
    /\ UNCHANGED pkgvars
    /\ UNCHANGED othervars

\* sendcmd / query:  intf.write_raw(cmd.as_bytes())?  The answer of the
\* instrument is not well.
WriteRawBadReply(h) ==
    /\ pc[h] = "write_raw"
    /\ lock = h
    /\ \E reply \in BadReplies(call[h].frame) : wire' = wire \o reply
    /\ log' = Append(log, Event(h, "write_raw", FALSE, call[h].frame))
    /\ pc' = [pc EXCEPT ![h] = "unlock_write"]
    /\ UNCHANGED <<lock, call, buf, result, calls>>
    /\ UNCHANGED pkgvars
    /\ UNCHANGED othervars

\* sendcmd / query: the block of the write ends and its guard is dropped.
UnlockAfterWrite(h) ==
    /\ pc[h] = "unlock_write"
    /\ lock = h
    /\ lock' = 0
    /\ pc' = [pc EXCEPT ![h] = "lock_read"]
    /\ UNCHANGED <<call, buf, result, wire, log, calls>>
    /\ UNCHANGED pkgvars
    /\ UNCHANGED othervars

\* read_package:  let mut intf = intf.lock();  let mut buf = Vec::new()
LockForRead(h) ==
    /\ pc[h] = "lock_read"
    /\ lock = 0
    /\ lock' = h
    /\ buf' = [buf EXCEPT ![h] = <<>>]
    /\ pc' = [pc EXCEPT ![h] = "read_byte"]
    /\ UNCHANGED <<call, result, wire, log, calls>>
    /\ UNCHANGED pkgvars
    /\ UNCHANGED othervars

\* read_package: one turn of the loop, read_exact of one byte and the test
\* for ETX.
ReadByte(h) ==
    /\ pc[h] = "read_byte"
    /\ lock = h
    /\ wire # <<>>
    /\ wire' = Tail(wire)
    /\ buf' = [buf EXCEPT ![h] = Append(buf[h], Head(wire))]
    /\ log' = Append(log, Event(h, "read_exact", FALSE, <<Head(wire)>>))
    /\ pc' = [pc EXCEPT ![h] = AfterRead(pc[h], Head(wire))]
    /\ UNCHANGED <<lock, call, result, calls>>
    /\ UNCHANGED pkgvars
    /\ UNCHANGED othervars

\* read_package: the two read_exact calls after ETX.
ReadCrc(h) ==
    /\ pc[h] \in {"read_crc1", "read_crc2"}
    /\ lock = h
    /\ wire # <<>>
    /\ wire' = Tail(wire)
    /\ buf' = [buf EXCEPT ![h] = Append(buf[h], Head(wire))]
    /\ log' = Append(log, Event(h, "read_exact", pc[h] = "read_crc2", <<Head(wire)>>))
    /\ pc' = [pc EXCEPT ![h] = AfterRead(pc[h], Head(wire))]
    /\ UNCHANGED <<lock, call, result, calls>>
    /\ UNCHANGED pkgvars
    /\ UNCHANGED othervars

\* read_package: the block of the read ends and its guard is dropped.
UnlockAfterRead(h) ==
    /\ pc[h] = "unlock_read"
    /\ lock = h
    /\ lock' = 0
    /\ pc' = [pc EXCEPT ![h] = "try_new"]
    /\ UNCHANGED <<call, buf, result, wire, log, calls>>
    /\ UNCHANGED pkgvars
    /\ UNCHANGED othervars

\* struct Agilent4Uhv, without its interface
Agilent4Uhv(device_address, u) ==
    [device_address |-> device_address, unit |-> u, num_channels |-> 4]

\* Agilent4Uhv::try_new_with_address after its address check, from what the
\* query of update_unit returned.
try_new_with_address(device_address, resp) ==
    IF update_unit(resp).tag # "Ok" THEN update_unit(resp)
    ELSE Ok(Agilent4Uhv(device_address, update_unit(resp).val))

\* What sendcmd, query and try_new_with_address return for the package
\* read_package returned.
Returned(c, package) ==
    IF c.fn = "sendcmd" /\ package.tag = "Ok" THEN ack_pkg(package.val)
    ELSE IF c.fn = "try_new_with_address"
    THEN try_new_with_address(c.device_address, package)
    ELSE package

\* read_package:  ReadPackage::try_new(&buf), and the return of sendcmd
\* (with ack_pkg) or query.
Return(h) ==
    /\ pc[h] = "try_new"
    /\ result' = [result EXCEPT ![h] = Returned(call[h], ReadPackage_try_new(buf[h]))]
    /\ pc' = [pc EXCEPT ![h] = "idle"]
    /\ UNCHANGED <<lock, call, buf, wire, log, calls>>
    /\ UNCHANGED pkgvars
    /\ UNCHANGED othervars

\* The device addresses given to try_new_with_address: the default, the
\* address of the test, the ends of the valid range and of u8.
DeviceAddressInputs == {0, 13, MAX_ADDR, MAX_ADDR + 1, U8_MAX}

\* Agilent4Uhv::try_new_with_address(interface, device_address), the first
\* call on the transport: the address check, and the query of update_unit
\* begun.
TryNewWithAddress(h) ==
    /\ pc[h] = "idle"
    /\ calls = 0
    /\ \E device_address \in DeviceAddressInputs :
        IF device_address > MAX_ADDR
        THEN /\ result' = [result EXCEPT ![h] =
                    Err("IntValueOutOfRange", "", <<device_address, 0, MAX_ADDR>>)]
             /\ call' = [call EXCEPT ![h] =
                    [fn |-> "try_new_with_address", frame |-> <<>>,
                     id |-> calls + 1, device_address |-> device_address]]
             /\ pc' = pc
        ELSE /\ result' = [result EXCEPT ![h] = NoResult]
             /\ call' = [call EXCEPT ![h] =
                    [fn |-> "try_new_with_address",
                     frame |-> as_bytes(new_read(600, device_address).val),
                     id |-> calls + 1, device_address |-> device_address]]
             /\ pc' = [pc EXCEPT ![h] = "lock_write"]
    /\ calls' = calls + 1
    /\ buf' = [buf EXCEPT ![h] = <<>>]
    /\ UNCHANGED <<lock, wire, log>>
    /\ UNCHANGED pkgvars
    /\ UNCHANGED othervars

\* sendcmd / query:  intf.write_raw(cmd.as_bytes())?  fails: the function
\* returns the error, its guard is dropped, the instrument gets no frame.
WriteRawFails(h) ==
    /\ pc[h] = "write_raw"
    /\ lock = h
    /\ \E e \in TransportErrors :
        /\ log' = Append(log, Event(h, "write_raw_err", FALSE, e))
        /\ result' = [result EXCEPT ![h] = From_InstrumentError(e)]
    /\ lock' = 0
    /\ pc' = [pc EXCEPT ![h] = "idle"]
    /\ UNCHANGED <<call, buf, wire, calls>>
    /\ UNCHANGED pkgvars
    /\ UNCHANGED othervars

\* read_package:  intf.read_exact(&mut byte)?  fails, at any of its three
\* places: the function returns the error, its guard and buf are dropped.
ReadFails(h) ==
    /\ pc[h] \in {"read_byte", "read_crc1", "read_crc2"}
    /\ lock = h
    /\ \E e \in TransportErrors :
        /\ log' = Append(log, Event(h, "read_exact_err", FALSE, e))
        /\ result' = [result EXCEPT ![h] = From_InstrumentError(e)]
    /\ lock' = 0
    /\ pc' = [pc EXCEPT ![h] = "idle"]
    /\ UNCHANGED <<call, buf, wire, calls>>
    /\ UNCHANGED pkgvars
    /\ UNCHANGED othervars

\* ------------------------------------------------- the unit and its cache

\* The data of an answer to a pressure query, "1.2E-9": a number in the
\* notation of the answers in the tests.
PressureAnswer == <<49, 46, 50, 69, 45, 57>>

\* The methods a handle calls, each with the sendcmd or query it makes:
\* the owner of the Agilent4Uhv (the first handle; its methods take &mut
\* self) calls set_unit, update_unit and get_unit, and every handle holds a
\* Channel of index 0 and calls get_pressure.
Methods(h) ==
    (IF h # 1 THEN {}
     ELSE {[name |-> "set_unit", arg |-> u, fn |-> "sendcmd",
            frame |-> as_bytes(new_write(600, Data_from_Unit(u), 0).val)] :
                u \in {"Torr", "Pa"}}
          \cup {[name |-> n, arg |-> "", fn |-> "query",
                  frame |-> as_bytes(new_read(600, 0).val)] :
                    n \in {"update_unit", "get_unit"}})
    \cup {[name |-> "get_pressure", arg |-> "", fn |-> "query",
            frame |-> as_bytes(new_read(812, 0).val)]}

\* What the instrument does with a command frame when its unit is iu: the
\* frame it answers and the unit it has afterwards. A write of window 600
\* is taken (ACK, the unit written) or refused (NACK), a read of window 600
\* is answered with the code of the unit, a read of window 812 with a
\* pressure.
InstrumentDoes(frame, iu) ==
    LET win == DigitsValue(0, SubSeq(frame, 3, 5))
        acks ==
            {[reply |-> <<STX, frame[2], ACK, ETX>>,
              iu |-> UnitOfCode(frame[Len(frame) - 3] - 48)],
             [reply |-> <<STX, frame[2], 21, ETX>>, iu |-> iu]}
    IN  IF frame[6] = COM_WRITE
        THEN {[reply |-> a.reply \o calculate_crc(Tail(a.reply)), iu |-> a.iu] :
                a \in acks}
        ELSE {[reply |-> ResponseFrame(frame[2] - ADDR_BASE, win,
                            IF win = 600 THEN FormatI64_06(UnitCode(iu))
                            ELSE PressureAnswer),
               iu |-> iu]}

\* Channel::get_pressure, from what its query returned: the value parsed,
\* or the error.
get_pressure(resp) ==
    IF resp.tag # "Ok" THEN resp
    ELSE IF alphanumeric_pkg(resp.val).tag # "Ok" THEN alphanumeric_pkg(resp.val)
    ELSE IF ~ParseF64(alphanumeric_pkg(resp.val).val).ok
    THEN Err("ResponseParseError", "Cannot convert to f64.",
             alphanumeric_pkg(resp.val).val)
    ELSE Ok(ParseF64(alphanumeric_pkg(resp.val).val).val)

\* Channel::get_pressure:  match *unit { ... }, the Pressure made of val.
Pressure(u, val) ==
    [from |-> IF u = "mBar" THEN "millibars" ELSE "pascals",
     times_133 |-> u = "Torr", val |-> val]

\* A handle calls a method; the method makes its sendcmd or query.
MethodCall(h) ==
    /\ pc[h] = "idle"
    /\ method[h].at = "done" /\ method[h].out.tag # "Panic"
    /\ calls < MaxOps
    /\ \E m \in Methods(h) :
        /\ method' = [method EXCEPT ![h] =
                        [NoMethod EXCEPT !.name = m.name, !.arg = m.arg,
                                         !.at = "exchange", !.was = unit]]
        /\ call' = [call EXCEPT ![h] =
                        [fn |-> m.fn, frame |-> m.frame, id |-> calls + 1,
                         device_address |-> 0]]
    /\ calls' = calls + 1
    /\ pc' = [pc EXCEPT ![h] = "lock_write"]
    /\ buf' = [buf EXCEPT ![h] = <<>>]
    /\ result' = [result EXCEPT ![h] = NoResult]
    /\ UNCHANGED <<lock, wire, log>>
    /\ UNCHANGED <<unit, inst_unit, sent>>
    /\ UNCHANGED <<pkgvars, lbkvars, chanvars>>

\* sendcmd / query:  intf.write_raw(cmd.as_bytes())?  The instrument takes
\* the frame and answers it.
InstrumentAnswers(h) ==
    /\ pc[h] = "write_raw"
    /\ lock = h
    /\ \E a \in InstrumentDoes(call[h].frame, inst_unit) :
        /\ wire' = wire \o a.reply
        /\ inst_unit' = a.iu
    /\ method' = [method EXCEPT ![h].answered_in = inst_unit]
    /\ log' = Append(log, Event(h, "write_raw", FALSE, call[h].frame))
    /\ pc' = [pc EXCEPT ![h] = "unlock_write"]
    /\ UNCHANGED <<lock, call, buf, result, calls>>
    /\ UNCHANGED <<unit, sent>>
    /\ UNCHANGED <<pkgvars, lbkvars, chanvars>>

\* sendcmd / query:  intf.write_raw(cmd.as_bytes())?  The instrument or the
\* line is not well: the frame has no effect, and what arrives is damaged,
\* refused or the code of no unit.
InstrumentAnswersBadly(h) ==
    /\ pc[h] = "write_raw"
    /\ lock = h
    /\ \E reply \in BadReplies(call[h].frame) : wire' = wire \o reply
    /\ method' = [method EXCEPT ![h].answered_in = inst_unit]
    /\ log' = Append(log, Event(h, "write_raw", FALSE, call[h].frame))
    /\ pc' = [pc EXCEPT ![h] = "unlock_write"]
    /\ UNCHANGED <<lock, call, buf, result, calls>>
    /\ UNCHANGED <<unit, inst_unit, sent>>
    /\ UNCHANGED <<pkgvars, lbkvars, chanvars>>

\* The methods with a set_unit that goes on to store whatever sendcmd
\* returned.
Exchanged_StoreAnyway(name, res) ==
    IF name = "set_unit" THEN Ok(<<>>)
    ELSE IF name = "get_pressure" THEN get_pressure(res)
    ELSE update_unit(res)

\* What a method has after its sendcmd or query returned res: the value to
\* go on with, or what it returns at once (the ? operator).
Exchanged(name, res) ==
    IF name = "set_unit"
    THEN (IF res.tag = "Err" THEN From_InstrumentError(res) ELSE res)
    ELSE IF name = "get_pressure" THEN get_pressure(res)
    ELSE update_unit(res)

\* set_unit: self.sendcmd(cmd)?;  update_unit: self.query(..)? and the
\* match;  get_unit: self.update_unit()? so far;  get_pressure: the query
\* and the two conversions. On an error the method returns it.
MethodExchanged(h) ==
    /\ method[h].at = "exchange"
    /\ pc[h] = "idle" /\ result[h].tag # "None"
    /\ LET r == Exchanged(method[h].name, result[h])
       IN  method' = [method EXCEPT ![h] =
                IF r.tag = "Ok"
                THEN [@ EXCEPT !.at = "lock_unit", !.val = r.val]
                ELSE [@ EXCEPT !.at = "done", !.out = r]]
    /\ UNCHANGED <<unit, inst_unit, sent>>
    /\ UNCHANGED <<pkgvars, drvvars, lbkvars, chanvars>>

\* self.unit.lock() and the block under it: set_unit stores its argument,
\* update_unit (alone or in get_unit) the unit received, get_pressure takes
\* the unit and makes the Pressure.
LockUnit(h) ==
    /\ method[h].at = "lock_unit"
    /\ unit' = CASE method[h].name = "set_unit" -> method[h].arg
                 [] method[h].name = "get_pressure" -> unit
                 [] OTHER -> method[h].val
    /\ method' = [method EXCEPT ![h] =
            CASE @.name = "get_unit" -> [@ EXCEPT !.at = "read_unit"]
              [] @.name = "get_pressure" ->
                    [@ EXCEPT !.at = "done", !.used = unit,
                              !.out = Ok(Pressure(unit, @.val))]
              [] OTHER -> [@ EXCEPT !.at = "done", !.out = Ok(<<>>)]]
    /\ UNCHANGED <<inst_unit, sent>>
    /\ UNCHANGED <<pkgvars, drvvars, lbkvars, chanvars>>

\* get_unit:  let unit = self.unit.lock();  Ok(*unit)
GetUnitRead(h) ==
    /\ method[h].at = "read_unit"
    /\ method' = [method EXCEPT ![h] =
                    [@ EXCEPT !.at = "done", !.used = unit, !.out = Ok(unit)]]
    /\ UNCHANGED <<unit, inst_unit, sent>>
    /\ UNCHANGED <<pkgvars, drvvars, lbkvars, chanvars>>

\* ----------------------------------------------- readers of queued frames

\* The instrument sends a response frame; it waits on the transport.
Queue ==
    /\ Len(sent) < MaxFrames
    /\ \E frame \in QueuedFrames :
        /\ wire' = wire \o frame
        /\ sent' = Append(sent, frame)
    /\ UNCHANGED <<lock, pc, call, buf, result, log, calls>>
    /\ UNCHANGED <<unit, inst_unit, method>>
    /\ UNCHANGED <<pkgvars, lbkvars, chanvars>>

\* A handle calls read_package(intf).
ReadPackageCall(h) ==
    /\ pc[h] = "idle"
    /\ calls < MaxFrames
    /\ call' = [call EXCEPT ![h] =
                    [fn |-> "read_package", frame |-> <<>>, id |-> calls + 1,
                     device_address |-> 0]]
    /\ calls' = calls + 1
    /\ pc' = [pc EXCEPT ![h] = "lock_read"]
    /\ result' = [result EXCEPT ![h] = NoResult]
    /\ UNCHANGED <<lock, buf, wire, log>>
    /\ UNCHANGED pkgvars
    /\ UNCHANGED othervars

\* ---------------------------------------------- LoopbackInterfaceBytes

\* Vec::get(i), i from 0
Get(v, i) == IF i < Len(v) THEN [some |-> TRUE, data_vec |-> v[i + 1]] ELSE None

\* What a method of the interface leaves: the interface and the result.
Left(self, res) == [self |-> self, res |-> res]

\* LoopbackInterfaceBytes::new
LoopbackInterfaceBytes_new(from_host, from_inst) ==
    [from_host |-> from_host, from_inst |-> from_inst, from_host_index |-> 0,
     from_inst_index |-> 0, curr_bytes |-> <<>>]

\* LoopbackInterfaceBytes::finalize.  IncrIndex::next returns the index and
\* increments it.
finalize(self) ==
    LET from_host_leftover == Get(self.from_host, self.from_host_index)
        from_inst_leftover == Get(self.from_inst, self.from_inst_index)
        after == [self EXCEPT !.from_host_index = @ + 1, !.from_inst_index = @ + 1]
    IN  IF from_host_leftover.some
        THEN Left(after, Panic("Leftover expected commands found from host to instrument"))
        ELSE IF from_inst_leftover.some
        THEN Left(after, Panic("Leftover expected commands found from instrument to host"))
        ELSE Left(after, Ok(<<>>))

\* LoopbackInterfaceBytes::write_raw, with get_next_from_host
write_raw(self, cmd_bytes) ==
    LET exp == Get(self.from_host, self.from_host_index)
        after == [self EXCEPT !.from_host_index = @ + 1]
    IN  IF ~exp.some
        THEN Left(after, Panic("No more bytes were expected from host to instrument."))
        ELSE IF exp.data_vec # cmd_bytes THEN Left(after, Panic("Expected sendcmd"))
        ELSE Left(after, Ok(<<>>))

RECURSIVE read_one_byte(_)
\* LoopbackInterfaceBytes::read_one_byte, with get_next_from_inst
read_one_byte(self) ==
    IF self.curr_bytes # <<>>
    THEN Left([self EXCEPT !.curr_bytes = Tail(@)], Ok(Head(self.curr_bytes)))
    ELSE LET next_cmd == Get(self.from_inst, self.from_inst_index)
             after == [self EXCEPT !.from_inst_index = @ + 1]
         IN  IF ~next_cmd.some
             THEN Left(after, Panic("No more bytes were expected from instrument to host."))
             ELSE read_one_byte([after EXCEPT !.curr_bytes = next_cmd.data_vec])

RECURSIVE read_exact(_, _)
\* LoopbackInterfaceBytes::read_exact into a buffer of len bytes: the bytes
\* read, or the panic of read_one_byte.
read_exact(self, len) ==
    IF len = 0 THEN Left(self, Ok(<<>>))
    ELSE LET one == read_one_byte(self)
             rest == read_exact(one.self, len - 1)
         IN  IF one.res.tag # "Ok" THEN one
             ELSE IF rest.res.tag # "Ok" THEN rest
             ELSE Left(rest.self, Ok(<<one.res.val>> \o rest.res.val))

\* The commands and answers a test provides: none, one, two, an answer of
\* two bytes and an empty answer.
FromHostInputs == {<<>>, <<<<1>>>>, <<<<1>>, <<2>>>>}

FromInstInputs == {<<>>, <<<<17>>>>, <<<<17>>, <<34>>>>, <<<<17, 34>>>>, <<<<>>, <<17>>>>}

\* let mut lbk = LoopbackInterfaceBytes::new(from_host, from_inst);
LbkNew ==
    /\ lbk_io.op = "none"
    /\ \E from_host \in FromHostInputs, from_inst \in FromInstInputs :
        lbk' = LoopbackInterfaceBytes_new(from_host, from_inst)
    /\ lbk_io' = [NoIo EXCEPT !.op = "new", !.res = Ok(<<>>)]
    /\ UNCHANGED <<pkgvars, drvvars, unitvars, chanvars>>

\* The interface is in use: made, not dropped, and no call on it has
\* panicked.
LbkInUse == lbk_io.op \notin {"none", "drop"} /\ lbk_io.res.tag = "Ok"

\* lbk.write_raw(&cmd)
LbkWriteRaw ==
    /\ LbkInUse
    /\ \E cmd_bytes \in {<<1>>, <<2>>, <<3>>} :
        /\ lbk' = write_raw(lbk, cmd_bytes).self
        /\ lbk_io' = [op |-> "write_raw", res |-> write_raw(lbk, cmd_bytes).res,
                      written |-> lbk_io.written
                                  + (IF write_raw(lbk, cmd_bytes).res.tag = "Ok"
                                     THEN 1 ELSE 0),
                      read |-> lbk_io.read]
    /\ UNCHANGED <<pkgvars, drvvars, unitvars, chanvars>>

\* lbk.read_exact(&mut buf) with a buffer of one or two bytes
LbkReadExact ==
    /\ LbkInUse
    /\ \E len \in 1..2 :
        /\ lbk' = read_exact(lbk, len).self
        /\ lbk_io' = [op |-> "read_exact", res |-> read_exact(lbk, len).res,
                      written |-> lbk_io.written,
                      read |-> lbk_io.read
                               + (IF read_exact(lbk, len).res.tag = "Ok"
                                  THEN len ELSE 0)]
    /\ UNCHANGED <<pkgvars, drvvars, unitvars, chanvars>>

\* lbk.finalize(), called by the test
LbkFinalize ==
    /\ LbkInUse
    /\ lbk_io.op # "finalize"
    /\ lbk' = finalize(lbk).self
    /\ lbk_io' = [lbk_io EXCEPT !.op = "finalize", !.res = finalize(lbk).res]
    /\ UNCHANGED <<pkgvars, drvvars, unitvars, chanvars>>

\* impl Drop: the interface goes out of scope and finalize is called.
LbkDrop ==
    /\ LbkInUse
    /\ lbk' = finalize(lbk).self
    /\ lbk_io' = [lbk_io EXCEPT !.op = "drop", !.res = finalize(lbk).res]
    /\ UNCHANGED <<pkgvars, drvvars, unitvars, chanvars>>

\* ------------------------------------------------------------- channels

\* Agilent4Uhv::set_num_channels with  (1..=5).contains(&num)
Agilent4Uhv_set_num_channels_Inclusive(num) ==
    IF ~(1 <= num /\ num <= 5) THEN Err("IntValueOutOfRange", "", <<num, 1, 4>>)
    ELSE Ok(num)

\* Agilent4Uhv::set_num_channels: the count to store, or the error.
Agilent4Uhv_set_num_channels(num) ==
    IF ~(1 <= num /\ num < 5) THEN Err("IntValueOutOfRange", "", <<num, 1, 4>>)
    ELSE Ok(num)

\* Tpg36x::set_num_channels: the count to store, or the error.
Tpg36x_set_num_channels(num) ==
    IF num >= 2 THEN Err("IntValueOutOfRange", "", <<num, 0, 1>>)
    ELSE Ok(num)

set_num_channels(inst, num) ==
    IF inst = "Agilent4Uhv" THEN Agilent4Uhv_set_num_channels(num)
    ELSE Tpg36x_set_num_channels(num)

\* get_channel of both drivers, self.num_channels given
get_channel(inst, self_num_channels, idx) ==
    IF idx >= self_num_channels
    THEN Err("ChannelIndexOutOfRange", "", <<idx, self_num_channels>>)
    ELSE Ok([inst |-> inst, idx |-> idx])

\* The window of a channel in get_hv_state and set_hv_state (base 11) and in
\* get_pressure (base 812, step 10):  match self.idx
ChannelWindow(name, idx) ==
    IF idx \notin 0..3 THEN Panic("Channel index should always be valid")
    ELSE IF name = "get_pressure" THEN Ok(812 + (10 * idx))
    ELSE Ok(11 + idx)

\* The counts and indexes given (usize).
CountInputs == 0..6

\* inst.set_num_channels(num)
SetNumChannels ==
    \E inst \in {"Agilent4Uhv", "Tpg36x"}, num \in CountInputs :
        /\ chan_ret' = [inst |-> inst, op |-> "set_num_channels", arg |-> num,
                        was |-> num_channels[inst],
                        res |-> set_num_channels(inst, num)]
        /\ num_channels' =
                IF set_num_channels(inst, num).tag = "Ok"
                THEN [num_channels EXCEPT ![inst] = num]
                ELSE num_channels
        /\ UNCHANGED <<channels, pkgvars, drvvars, unitvars, lbkvars>>

\* inst.get_channel(idx)
GetChannel ==
    \E inst \in {"Agilent4Uhv", "Tpg36x"}, idx \in CountInputs :
        /\ chan_ret' = [inst |-> inst, op |-> "get_channel", arg |-> idx,
                        was |-> num_channels[inst],
                        res |-> get_channel(inst, num_channels[inst], idx)]
        /\ channels' =
                IF get_channel(inst, num_channels[inst], idx).tag = "Ok"
                THEN channels \cup {get_channel(inst, num_channels[inst], idx).val}
                ELSE channels
        /\ UNCHANGED <<num_channels, pkgvars, drvvars, unitvars, lbkvars>>

\* A Channel of the Agilent4Uhv maps its index to the window of a method.
ChannelCall ==
    \E channel \in channels, name \in {"get_hv_state", "set_hv_state", "get_pressure"} :
        /\ channel.inst = "Agilent4Uhv"
        /\ chan_ret' = [inst |-> channel.inst, op |-> name, arg |-> channel.idx,
                        was |-> num_channels[channel.inst],
                        res |-> ChannelWindow(name, channel.idx)]
        /\ UNCHANGED <<num_channels, channels, pkgvars, drvvars, unitvars, lbkvars>>

\* ------------------------------------------------------- specifications

\* Building command packages and parsing them back.
NextCmd ==
    \/ NewRead
    \/ NewWrite
    \/ AsBytes
    \/ TryNew

SpecCmd == Init /\ [][NextCmd]_vars

\* Parsing received frames and reading them.
NextRead ==
    \/ Receive
    \/ TryNew
    \/ AckPkg
    \/ IntPkg
    \/ FloatPkg
    \/ AlphanumericPkg

SpecRead == Init /\ [][NextRead]_vars

\* Parsing accepted frames, and parsing them again with one byte replaced.
NextFlip ==
    \/ ReceiveAccepted
    \/ TryNew
    \/ ReplaceByte

SpecFlip == Init /\ [][NextFlip]_vars

\* A test's use of a LoopbackInterfaceBytes.
NextLbk ==
    \/ LbkNew
    \/ LbkWriteRaw
    \/ LbkReadExact
    \/ LbkFinalize
    \/ LbkDrop

SpecLbk == Init /\ [][NextLbk]_vars

\* Setting the number of channels and getting and using channels.
NextChan ==
    \/ SetNumChannels
    \/ GetChannel
    \/ ChannelCall

SpecChan == Init /\ [][NextChan]_vars

\* Converting values into payloads and reading the payloads back.
NextData ==
    \/ FromBool
    \/ TryFromI64
    \/ TryFromF64
    \/ TryFromStr
    \/ FromUnit
    \/ FromHvState
    \/ Respond
    \/ TryNew
    \/ IntPkg
    \/ FloatPkg
    \/ AlphanumericPkg
    \/ UpdateUnit
    \/ GetHvState

SpecData == Init /\ [][NextData]_vars

\* The handles' calls on the shared transport, the transport and the
\* instrument working.
Next ==
    \E h \in Handles :
        \/ Call(h)
        \/ LockForWrite(h)
        \/ WriteRaw(h)
        \/ UnlockAfterWrite(h)
        \/ LockForRead(h)
        \/ ReadByte(h)
        \/ ReadCrc(h)
        \/ UnlockAfterRead(h)
        \/ Return(h)

Spec == Init /\ [][Next]_vars

\* Handles that call read_package while response frames wait or arrive.
NextReaders ==
    \/ Queue
    \/ \E h \in Handles :
        \/ ReadPackageCall(h)
        \/ LockForRead(h)
        \/ ReadByte(h)
        \/ ReadCrc(h)
        \/ UnlockAfterRead(h)
        \/ Return(h)

SpecReaders == Init /\ [][NextReaders]_vars

\* The owner of the instrument and the holders of its channels, each in its
\* thread, on an instrument and a line that are well.
NextUnit ==
    \E h \in Handles :
        \/ MethodCall(h)
        \/ LockForWrite(h)
        \/ InstrumentAnswers(h)
        \/ UnlockAfterWrite(h)
        \/ LockForRead(h)
        \/ ReadByte(h)
        \/ ReadCrc(h)
        \/ UnlockAfterRead(h)
        \/ Return(h)
        \/ MethodExchanged(h)
        \/ LockUnit(h)
        \/ GetUnitRead(h)

SpecUnit == Init /\ [][NextUnit]_vars

\* The owner of the instrument alone, one method after another, with the
\* failures of the instrument and of the transport.
NextUnitOne ==
    \/ calls < MaxSeqCalls /\ MethodCall(1)
    \/ LockForWrite(1)
    \/ InstrumentAnswers(1)
    \/ InstrumentAnswersBadly(1)
    \/ WriteRawFails(1)
    \/ UnlockAfterWrite(1)
    \/ LockForRead(1)
    \/ ReadByte(1)
    \/ ReadCrc(1)
    \/ ReadFails(1)
    \/ UnlockAfterRead(1)
    \/ Return(1)
    \/ MethodExchanged(1)
    \/ LockUnit(1)
    \/ GetUnitRead(1)

SpecUnitOne == Init /\ [][NextUnitOne]_vars

\* The first handle alone: the construction of the instrument or at most
\* MaxSeqCalls calls of sendcmd and query, one after another, on a transport
\* that can fail and with answers that can be damaged.
NextOne ==
    \/ TryNewWithAddress(1)
    \/ calls < MaxSeqCalls /\ Call(1)
    \/ LockForWrite(1)
    \/ WriteRaw(1)
    \/ WriteRawBadReply(1)
    \/ WriteRawFails(1)
    \/ UnlockAfterWrite(1)
    \/ LockForRead(1)
    \/ ReadByte(1)
    \/ ReadCrc(1)
    \/ ReadFails(1)
    \/ UnlockAfterRead(1)
    \/ Return(1)

SpecOne == Init /\ [][NextOne]_vars

\* ------------------------------------------------- the protocol, as stated

\* The statements below are written against the protocol's description, not
\* with the operators that model the code.

\* Bit k of byte b.
SpecBit(b, k) == (b \div (2 ^ k)) % 2

RECURSIVE SpecXorFrom(_, _)
\* The XOR of the bytes of s, bits k..7: bit k of the XOR is the parity of
\* the number of bytes with bit k set.
SpecXorFrom(s, k) ==
    IF k > 7 THEN 0
    ELSE ((Cardinality({i \in 1..Len(s) : SpecBit(s[i], k) = 1}) % 2) * (2 ^ k))
         + SpecXorFrom(s, k + 1)

\* "0123456789ABCDEF"
SpecHexChars == <<48, 49, 50, 51, 52, 53, 54, 55, 56, 57, 65, 66, 67, 68, 69, 70>>

\* The checksum of the bytes s: their XOR as two upper-case hex characters.
SpecChecksum(s) ==
    LET x == SpecXorFrom(s, 0)
    IN  <<SpecHexChars[(x \div 16) + 1], SpecHexChars[(x % 16) + 1]>>

\* The last two bytes of a frame, and the bytes from its address to its ETX.
LastTwo(f) == SubSeq(f, Len(f) - 1, Len(f))

AddrToEtx(f) == SubSeq(f, 2, Len(f) - 2)

\* The three zero-padded decimal digits of a window number.
SpecWinDigits(w) == <<48 + (w \div 100), 48 + ((w \div 10) % 10), 48 + (w % 10)>>

\* A command frame without its checksum, from the constructor's arguments.
SpecFrameHead(a) ==
    <<2, 128 + a.addr>> \o SpecWinDigits(a.win)
    \o <<IF a.kind = "read" THEN 48 ELSE 49>> \o a.data \o <<3>>

\* A command package was built from valid arguments.
Built == args.kind # "none" /\ args.win <= 999 /\ args.addr <= 31

\* try_new was called on the bytes in raw.
Tried == step \in {"parsed", "read"}

\* The DATA field of a response frame STX ADDR WIN(3) COM DATA ETX CRC(2).
DataField(f) == SubSeq(f, 7, Len(f) - 3)

\* C1: one command/response exchange is atomic on the shared transport: no
\* write_raw or read_exact of another handle comes between a handle's
\* write_raw and the read_exact that completes its response frame.
C1_ExchangeAtomic ==
    \A i \in 1..Len(log), j \in 1..Len(log) :
        (i < j /\ log[i].op = "write_raw" /\ log[j].h # log[i].h)
            => \E k \in (i + 1)..(j - 1) :
                    /\ log[k].h = log[i].h
                    /\ log[k].op = "read_exact"
                    /\ log[k].last

\* C2: int_pkg, float_pkg and alphanumeric_pkg return a value or a
\* ResponseParseError, and never abort, on every package try_new accepts.
C2_AccessorsNeverAbort ==
    (step = "read" /\ ret.op \in {"int_pkg", "float_pkg", "alphanumeric_pkg"})
        => \/ ret.res.tag = "Ok"
           \/ ret.res.tag = "Err" /\ ret.res.kind = "ResponseParseError"

\* C3: every frame new_read or new_write builds (window 0..=999, address
\* 0..=31) is accepted by try_new: it has at least 6 bytes and the checksum
\* the parser recomputes over bytes 1..len-2 is the two bytes the builder
\* appended.
C3_BuiltFrameAccepted ==
    (Built /\ step = "parsed")
        => /\ raw = as_bytes(cmd.val)
           /\ Len(raw) >= 6
           /\ calculate_crc(Slice(raw, 1, Len(raw) - 2)) = cmd.val.crc
           /\ LastTwo(raw) = cmd.val.crc
           /\ pkg.tag = "Ok"

C3_Witness ==
    /\ Built /\ step = "parsed" /\ pkg.tag = "Ok"
    /\ args.kind = "write" /\ args.win = 600 /\ Len(args.data) = 6

\* C4: the last two bytes of a built frame are the two upper-case hex
\* characters of the XOR of its bytes from the address through ETX.
C4_ChecksumOfAddrToEtx ==
    (Built /\ cmd.tag = "Ok")
        => LET f == as_bytes(cmd.val)
           IN  /\ f[2] = 128 + args.addr
               /\ f[Len(f) - 2] = 3
               /\ LastTwo(f) = SpecChecksum(AddrToEtx(f))

\* The example of the manual: turn on channel 1, checksum "B3".
C4_Witness ==
    /\ Built /\ cmd.tag = "Ok" /\ step = "received"
    /\ args.kind = "write" /\ args.win = 11 /\ args.addr = 0 /\ args.data = <<49>>
    /\ raw = <<2, 128, 48, 49, 49, 49, 49, 3, 66, 51>>

\* C5: a read frame is STX, 0x80+a, the three digits of w, 0x30, ETX and two
\* checksum bytes (9 bytes, no payload); a write frame is STX, 0x80+a, the
\* three digits, 0x31, the payload, ETX and two checksum bytes; every call to
\* as_bytes gives that frame.
C5_FrameLayout ==
    (Built /\ cmd.tag = "Ok")
        => LET f == as_bytes(cmd.val)
           IN  /\ SubSeq(f, 1, Len(f) - 2) = SpecFrameHead(args)
               /\ Len(f) = 9 + Len(args.data)
               /\ args.kind = "read" => Len(f) = 9
               /\ step = "received" => raw = f

\* Read pressure, window 812, and a window below 100 in the same run.
C5_Witness ==
    /\ Built /\ step = "received" /\ args.kind = "read" /\ args.win = 812
    /\ args.addr = 0 /\ raw = <<2, 128, 56, 49, 50, 48, 3, 56, 56>>

\* C6: an input of at least 6 bytes whose last two bytes are not the
\* checksum of its bytes 1..len-2 gets ChecksumInvalid, and no package.
C6_BadChecksumRejected ==
    (Tried /\ Len(raw) >= 6 /\ LastTwo(raw) # SpecChecksum(AddrToEtx(raw)))
        => /\ pkg = Err("ChecksumInvalid", "", <<>>)
           /\ step # "read"

\* A well-formed frame whose final checksum byte alone is wrong.
C6_Witness ==
    /\ step = "parsed" /\ Len(raw) >= 9
    /\ raw[Len(raw) - 1] = SpecChecksum(AddrToEtx(raw))[1]
    /\ raw[Len(raw)] # SpecChecksum(AddrToEtx(raw))[2]
    /\ pkg.kind = "ChecksumInvalid"

\* C7: every input of fewer than 6 bytes gets the too-short error, which
\* carries the bytes; try_new never indexes out of range.
C7_TooShortRejected ==
    Tried => /\ Len(raw) < 6 => pkg = Err("PackageInvalid", "too short", raw)
             /\ pkg.tag # "Panic"

\* The empty input, and a 5-byte input whose checksum bytes are right.
C7_Witness ==
    /\ step = "parsed" /\ Len(raw) = 5
    /\ LastTwo(raw) = SpecChecksum(AddrToEtx(raw))
    /\ pkg.kind = "PackageInvalid" /\ pkg.val = raw

\* C8: on success try_new keeps raw[2..len-3]: len-5 bytes, at least one,
\* the first of them raw[2].
C8_RetainedBody ==
    (Tried /\ pkg.tag = "Ok")
        => /\ pkg.val.data = SubSeq(raw, 3, Len(raw) - 3)
           /\ Len(pkg.val.data) = Len(raw) - 5
           /\ Len(pkg.val.data) >= 1
           /\ pkg.val.data[1] = raw[3]

C8_Witness ==
    /\ step = "parsed" /\ pkg.tag = "Ok" /\ Len(raw) = 11
    /\ pkg.val.data = <<54, 48, 48, 49, 32, 49>>

\* Whether res is what the accessor op must return for the DATA field d:
\* alphanumeric_pkg the trimmed field, int_pkg and float_pkg the number the
\* trimmed field parses to, or a parse error when it parses to none.
SpecParsedAs(p, res) ==
    IF p.ok THEN res = Ok(p.val)
    ELSE res.tag = "Err" /\ res.kind = "ResponseParseError"

SpecAccessor(op, d, res) ==
    CASE op = "alphanumeric_pkg" -> res = Ok(Trim(d))
      [] op = "int_pkg" -> SpecParsedAs(ParseI64(Trim(d)), res)
      [] op = "float_pkg" -> SpecParsedAs(ParseF64(Trim(d)), res)

\* An accessor other than ack_pkg was called on an accepted frame of the
\* form STX ADDR WIN(3) COM DATA ETX CRC(2).
ReadDataFrame ==
    /\ step = "read" /\ Len(raw) >= 9
    /\ ret.op \in {"int_pkg", "float_pkg", "alphanumeric_pkg"}

\* C9 as stated: on every accepted frame of that form alphanumeric_pkg
\* returns DATA trimmed and int_pkg, float_pkg parse the trimmed DATA.
C9_AccessorsReadData_Original ==
    ReadDataFrame => SpecAccessor(ret.op, DataField(raw), ret.res)

\* C9, amended: so it is when DATA is valid UTF-8; when it is not, the three
\* accessors return ResponseParseError("Invalid UTF8"). Either way they skip
\* the 4 echoed bytes and no byte of DATA.
C9_AccessorsReadData ==
    ReadDataFrame
        => IF Utf8Valid(DataField(raw))
           THEN SpecAccessor(ret.op, DataField(raw), ret.res)
           ELSE ret.res = Err("ResponseParseError", "Invalid UTF8", <<>>)

\* " 1 " is read as the integer 1.
C9_Witness ==
    /\ ReadDataFrame /\ ret.op = "int_pkg"
    /\ DataField(raw) = <<32, 49, 32>> /\ ret.res = Ok(1)

\* The reason ack_pkg reports for a status byte other than ACK.
SpecNackReason(code) ==
    CASE code = 21 -> "NACK"
      [] code = 50 -> "Unknown Window"
      [] code = 51 -> "Data Type Error"
      [] code = 53 -> "Win disabled"
      [] OTHER -> "Unknown Error"

\* C10: ack_pkg returns Ok exactly when the first retained byte is 0x06 and
\* NotAcknowledged with the reason of the table otherwise; it never panics.
C10_AckDecoding ==
    (step = "read" /\ ret.op = "ack_pkg")
        => /\ ret.res.tag # "Panic"
           /\ ret.res.tag = "Ok" <=> raw[3] = 6
           /\ raw[3] # 6
                => ret.res = Err("NotAcknowledged", SpecNackReason(raw[3]), <<>>)

\* Status byte 0x33, "Data Type Error".
C10_Witness ==
    /\ step = "read" /\ ret.op = "ack_pkg" /\ raw[3] = 51
    /\ ret.res.msg = "Data Type Error"

\* ------------------------------------------------- the encoder, as stated

\* A conversion of the given kind was made; its input.
Encoded(kind) == args.kind = kind

Input == args.data[1]

\* The payload a successful conversion gave.
Payload == cmd.val.data_vec

\* C11: Data::try_from(i64) succeeds exactly for -99999 <= v <= 999999 and
\* returns IntValueOutOfRange for every other value, 1000000 and -100000
\* among them.
C11_I64Domain ==
    Encoded("i64")
        => IF -99999 <= Input /\ Input <= 999999
           THEN cmd.tag = "Ok"
           ELSE cmd.tag = "Err" /\ cmd.kind = "IntValueOutOfRange"

C11_Witness ==
    /\ Encoded("i64") /\ step = "encoded" /\ Input = 1000000
    /\ cmd.kind = "IntValueOutOfRange"

\* The integer six bytes denote: an optional '-' and decimal digits.
SpecI64Of(d) ==
    LET digits == IF d[1] = 45 THEN Tail(d) ELSE d
        n == Len(digits)
        abs == IF \A i \in 1..n : digits[i] \in 48..57
               THEN DigitsValue(0, digits) ELSE -1
    IN  IF d[1] = 45 THEN 0 - abs ELSE abs

\* C12: the payload of an accepted integer v, sent back as the DATA of a
\* well-formed response frame, is read by int_pkg as v; the six bytes denote
\* v, so no two integers share an encoding.
C12_I64RoundTrip ==
    (Encoded("i64") /\ cmd.tag = "Ok")
        => /\ Len(Payload) = 6
           /\ SpecI64Of(Payload) = Input
           /\ step \in {"received", "parsed", "read"}
                => /\ DataField(raw) = Payload
                   /\ LastTwo(raw) = SpecChecksum(AddrToEtx(raw))
           /\ Tried => pkg.tag = "Ok"
           /\ (step = "read" /\ ret.op = "int_pkg") => ret.res = Ok(Input)

C12_Witness ==
    /\ Encoded("i64") /\ step = "read" /\ ret.op = "int_pkg"
    /\ Input = -99999 /\ Payload = <<45, 57, 57, 57, 57, 57>>
    /\ ret.res = Ok(-99999)

\* The bytes the decimal form of an integer takes, its sign included.
SpecDecimalWidth(v) ==
    IF v < 0 THEN 1 + Len(DecDigits(0 - v)) ELSE Len(DecDigits(v))

\* C13: a payload is 1 byte from a bool, 6 bytes from an i64 or an f64 and
\* at most 48 bytes, the string's own, from a &str; an integer of more than
\* 6 characters and a string of more than 48 bytes get an error.
C13_PayloadLength ==
    /\ (Encoded("bool") /\ cmd.tag = "Ok") => Len(Payload) = 1
    /\ (Encoded("i64") /\ cmd.tag = "Ok") => Len(Payload) = 6
    /\ (Encoded("f64") /\ cmd.tag = "Ok") => Len(Payload) = 6
    /\ (Encoded("str") /\ cmd.tag = "Ok")
            => Len(Payload) <= 48 /\ Len(Payload) = Len(Input)
    /\ (Encoded("i64") /\ SpecDecimalWidth(Input) > 6) => cmd.tag = "Err"
    /\ (Encoded("str") /\ Len(Input) > 48) => cmd.tag = "Err"

\* 123.456789 is cut to "123.45".
C13_Witness ==
    /\ Encoded("f64") /\ cmd.tag = "Ok" /\ step = "encoded"
    /\ Input = F64(FALSE, 123456789, -6)
    /\ Payload = <<49, 50, 51, 46, 52, 53>>

\* C14: the payload of an accepted float does not end with '.': its last
\* byte is a digit.
C14_LastByteDigit ==
    (Encoded("f64") /\ cmd.tag = "Ok")
        => /\ Payload[Len(Payload)] # 46
           /\ Payload[Len(Payload)] \in 48..57

\* C15: the error of a rejected integer carries the value and the bounds of
\* the encoder: every integer within [min, max] is accepted and every
\* accepted integer is within [min, max].
C15_ErrorBoundsAreValidBounds ==
    (Encoded("i64") /\ cmd.tag = "Err")
        => LET min == cmd.val[2]
               max == cmd.val[3]
           IN  /\ cmd.val[1] = Input
               /\ \A v \in I64Inputs :
                    (min <= v /\ v <= max) <=> Data_try_from_i64(v).tag = "Ok"

\* C16: Data::try_from(&str) succeeds exactly when the string has at most 48
\* bytes, all in 0x20..=0x5F, and then the payload is the string's bytes; a
\* string too long and a string with an invalid byte get different messages,
\* a string with both the message of the length.
C16_StrEncoding ==
    Encoded("str")
        => LET fits == Len(Input) <= 48
               valid == \A i \in 1..Len(Input) : Input[i] \in 32..95
           IN  /\ cmd.tag = "Ok" <=> (fits /\ valid)
               /\ cmd.tag = "Ok" => Payload = Input
               /\ cmd.tag # "Ok" => cmd.tag = "Err" /\ cmd.kind = "InvalidArgument"
               /\ ~fits => cmd.msg = "too long"
               /\ (fits /\ ~valid) => cmd.msg = "invalid character"

\* 49 bytes, the last of them a lower-case letter.
C16_Witness ==
    /\ Encoded("str") /\ step = "encoded" /\ Len(Input) = 49 /\ Input[49] = 97
    /\ cmd.msg = "too long"

\* C17: new_read and new_write halt only for a window out of bounds: for a
\* window in 0..=999, any address byte and any payload they return a
\* packet, for a window of 1000 or more they halt.
C17_HaltsOnlyOnWindow ==
    (args.kind \in {"read", "write"} /\ step # "start")
        => IF args.win <= 999 THEN cmd.tag = "Ok" ELSE cmd.tag = "Panic"

\* ------------------------------------------------- the driver, as stated

\* The entries of the log made in the call with number c, and the reads
\* (done and failed) among them.
EventsOf(c) == SelectSeq(log, LAMBDA e : e.id = c)

IsWrite(e) == e.op \in {"write_raw", "write_raw_err"}

IsRead(e) == e.op \in {"read_exact", "read_exact_err"}

ReadsOf(c) == SelectSeq(EventsOf(c), IsRead)

\* The bytes a call has read.
BytesRead(c) ==
    LET r == SelectSeq(EventsOf(c), LAMBDA e : e.op = "read_exact")
    IN  [i \in 1..Len(r) |-> r[i].data[1]]

\* Handle h is back from a call of one of the functions fns.
BackFrom(h, fns) == call[h].fn \in fns /\ pc[h] = "idle" /\ result[h].tag # "None"

\* What a response frame fails with, "" when it is acknowledged or data.
SpecVerdict(frame) ==
    IF Len(frame) < 6 THEN "PackageInvalid"
    ELSE IF LastTwo(frame) # SpecChecksum(AddrToEtx(frame)) THEN "ChecksumInvalid"
    ELSE IF Len(frame) = 6 /\ frame[3] = 21 THEN "NotAcknowledged"
    ELSE ""

\* C18: a sendcmd or query writes once, its command frame and before any
\* read, and reads no further than the two bytes after the first ETX; when
\* the frame read is too short, has a wrong checksum or is a NACK, the call
\* has returned that error with one write and that one frame read.
C18_OneWriteOneFrame ==
    /\ \A c \in 1..calls :
        /\ \A i \in 1..Len(EventsOf(c)) : IsWrite(EventsOf(c)[i]) <=> i = 1
        /\ \A i \in 1..Len(ReadsOf(c)) :
            (ReadsOf(c)[i].op = "read_exact" /\ ReadsOf(c)[i].data = <<3>>)
                => Len(ReadsOf(c)) <= i + 2
    /\ \A h \in Handles :
        (call[h].fn \in {"sendcmd", "query"} /\ Len(EventsOf(call[h].id)) > 0)
            => \/ EventsOf(call[h].id)[1].op = "write_raw_err"
               \/ EventsOf(call[h].id)[1].data = call[h].frame
    /\ \A h \in Handles :
        (BackFrom(h, {"sendcmd", "query"}) /\ result[h].kind # "Io")
            => LET frame == BytesRead(call[h].id)
               IN  /\ Len(EventsOf(call[h].id)) = 1 + Len(frame)
                   /\ Len(frame) >= 3 /\ frame[Len(frame) - 2] = 3
                   /\ SpecVerdict(frame) # ""
                        => /\ result[h].tag = "Err"
                           /\ result[h].kind = SpecVerdict(frame)

\* A write refused with a NACK: one write, six bytes read, the error back.
C18_Witness ==
    /\ BackFrom(1, {"sendcmd"}) /\ result[1] = Err("NotAcknowledged", "NACK", <<>>)
    /\ Len(log) = 7 /\ log[1].op = "write_raw" /\ log[7].last

\* C19: an error of write_raw or read_exact ends the call's use of the
\* transport (no read after a failed write, nothing after a failed read) and
\* is what the call returns; no verdict of try_new on the bytes read so far
\* is returned instead.
C19_TransportErrorsPassThrough ==
    \A c \in 1..calls :
        \A i \in 1..Len(EventsOf(c)) :
            EventsOf(c)[i].op \in {"write_raw_err", "read_exact_err"}
                => /\ i = Len(EventsOf(c))
                   /\ \A h \in Handles :
                        call[h].id = c
                            => /\ pc[h] = "idle"
                               /\ result[h] = EventsOf(c)[i].data
                               /\ result[h].kind = "Io"

\* The transport times out after the first three bytes of the answer.
C19_Witness ==
    /\ BackFrom(1, {"sendcmd", "query"}) /\ Len(log) = 5
    /\ log[5].op = "read_exact_err" /\ log[4].op = "read_exact"
    /\ result[1] = Err("Io", "timed out", <<>>)

\* The frame that reads window 600 at device address a.
SpecReadUnitFrame(a) ==
    <<2, 128 + a, 54, 48, 48, 48, 3>>
    \o SpecChecksum(<<128 + a, 54, 48, 48, 48, 3>>)

\* C20: try_new_with_address returns IntValueOutOfRange for an address above
\* 31 with nothing written or read; for an address in 0..=31 it writes at
\* most once, the read of window 600 at that address, and when it returns
\* the instrument it has made that one exchange: one write and one frame
\* read, to its last checksum byte.
C20_ConstructorExchange ==
    \A h \in Handles :
        call[h].fn = "try_new_with_address"
            => IF call[h].device_address > 31
               THEN /\ pc[h] = "idle" /\ log = <<>> /\ wire = <<>>
                    /\ result[h].tag = "Err"
                    /\ result[h].kind = "IntValueOutOfRange"
                    /\ result[h].val[1] = call[h].device_address
               ELSE /\ \A i \in 1..Len(log) :
                        log[i].op = "write_raw"
                            => i = 1 /\ log[i].data = SpecReadUnitFrame(call[h].device_address)
                    /\ (pc[h] = "idle" /\ result[h].tag = "Ok")
                        => /\ Len(log) >= 2 /\ log[1].op = "write_raw"
                           /\ \A i \in 2..Len(log) :
                                log[i].op = "read_exact" /\ (log[i].last <=> i = Len(log))
                           /\ result[h].val.device_address = call[h].device_address

\* The construction of the test: address 13, the unit read as mBar.
C20_Witness ==
    /\ BackFrom(1, {"try_new_with_address"}) /\ call[1].device_address = 13
    /\ result[1] = Ok([device_address |-> 13, unit |-> "mBar", num_channels |-> 4])
    /\ Len(log) = 16

\* ------------------------------------------- the float payload, as stated

\* The positions of byte b in s.
Positions(s, b) == {i \in 1..Len(s) : s[i] = b}

\* C28: the payload of an accepted float is a 6-byte decimal numeral with
\* the sign of its input: a '-' first exactly when the input is negative and
\* nowhere else, at most one '.', digits everywhere else.
C28_WellFormedNumeral ==
    (Encoded("f64") /\ cmd.tag = "Ok")
        => /\ Len(Payload) = 6
           /\ Positions(Payload, 45) = (IF Input.neg THEN {1} ELSE {})
           /\ Cardinality(Positions(Payload, 46)) <= 1
           /\ \A i \in 1..6 : Payload[i] \in (48..57) \cup {45, 46}

\* ---------------------------------------------- the enum codes, as stated

\* The six bytes of a code 0..9 as a zero-padded decimal.
SpecCodePayload(code) == <<48, 48, 48, 48, 48, 48 + code>>

SpecUnitCodes == [Torr |-> 0, mBar |-> 1, Pa |-> 2]

SpecHvCodes == [Off |-> 0, On |-> 1]

\* A response with the payload of the conversion was read by op.
ReadBackBy(op) == step = "read" /\ ret.op = op

\* C25: a Unit and an HvState are always converted, into the six bytes of the
\* code Torr=0, mBar=1, Pa=2 and Off=0, On=1; a response with that payload
\* is read back as the same unit by update_unit and as the same state by
\* get_hv_state, and a response with any other integer gives
\* ResponseParseError.
C25_EnumCodesRoundTrip ==
    /\ Encoded("unit")
        => /\ cmd = Ok([data_vec |-> SpecCodePayload(SpecUnitCodes[Input])])
           /\ ReadBackBy("update_unit") => ret.res = Ok(Input)
    /\ Encoded("hv_state")
        => /\ cmd = Ok([data_vec |-> SpecCodePayload(SpecHvCodes[Input])])
           /\ ReadBackBy("get_hv_state") => ret.res = Ok(Input)
    /\ (Encoded("i64") /\ ReadBackBy("update_unit") /\ Input \notin {0, 1, 2})
        => ret.res.tag = "Err" /\ ret.res.kind = "ResponseParseError"
    /\ (Encoded("i64") /\ ReadBackBy("get_hv_state") /\ Input \notin {0, 1})
        => ret.res.tag = "Err" /\ ret.res.kind = "ResponseParseError"

\* Pa written and read back.
C25_Witness ==
    /\ Encoded("unit") /\ Input = "Pa" /\ ReadBackBy("update_unit")
    /\ raw = <<2, 128, 54, 48, 48, 49, 48, 48, 48, 48, 48, 50, 3>> \o LastTwo(raw)
    /\ ret.res = Ok("Pa")

\* ------------------------------------------- one byte replaced, as stated

\* The frame in raw is the accepted frame with the byte at 0-based index i
\* replaced, and has been parsed.
ReplacedAt(i) == args.kind = "replaced" /\ args.data[2] = i /\ step = "parsed"

\* C30: a frame that try_new accepted, with one byte at index 1 or above
\* replaced by a different byte, is rejected with ChecksumInvalid.
C30_SingleByteChangeRejected ==
    \A i \in 1..14 :
        ReplacedAt(i)
            => /\ Len(raw) = Len(args.data[1])
               /\ raw[i + 1] # args.data[1][i + 1]
               /\ \A k \in 1..Len(raw) : k # i + 1 => raw[k] = args.data[1][k]
               /\ pkg.tag = "Err" /\ pkg.kind = "ChecksumInvalid"

\* The ETX of the unit answer replaced by an ACK byte.
C30_Witness ==
    /\ ReplacedAt(12) /\ Len(raw) = 15 /\ raw[13] = 6 /\ args.data[1][13] = 3
    /\ pkg.kind = "ChecksumInvalid"

\* ------------------------------------------------ the loopback, as stated

RECURSIVE SpecByteCount(_)
\* The number of bytes in a list of byte strings.
SpecByteCount(list) ==
    IF list = <<>> THEN 0 ELSE Len(Head(list)) + SpecByteCount(Tail(list))

\* C22: finalize, called by the test or on drop, passes only when every
\* command provided was written and every byte provided was read; it panics
\* when a command or a byte is left.
C22_FinalizeDemandsAllUsed ==
    (lbk_io.op \in {"finalize", "drop"} /\ lbk_io.res.tag = "Ok")
        => /\ lbk_io.written = Len(lbk.from_host)
           /\ lbk_io.read = SpecByteCount(lbk.from_inst)

\* The case of the tests: nothing used of one command and one answer, and
\* the drop panics.
C22_Witness ==
    /\ lbk_io.op = "drop" /\ lbk_io.res.tag = "Panic"
    /\ lbk.from_host = <<<<1>>>> /\ lbk.from_inst = <<<<17>>>>
    /\ lbk_io.written = 0 /\ lbk_io.read = 0

\* ------------------------------------------------ the channels, as stated

\* The last call was op on the instrument inst.
Called(inst, name) == chan_ret.inst = inst /\ chan_ret.op = name

\* C23: Tpg36x::set_num_channels accepts exactly 1 and 2 and rejects every
\* other count with IntValueOutOfRange; the count accepted is the count get_channel
\* goes by: get_channel(idx) succeeds exactly for idx below it.
C23_TpgChannelCounts ==
    /\ Called("Tpg36x", "set_num_channels")
        => /\ chan_ret.res.tag = "Ok" <=> chan_ret.arg \in {1, 2}
           /\ chan_ret.res.tag = "Ok" => num_channels.Tpg36x = chan_ret.arg
           /\ chan_ret.res.tag # "Ok"
                => chan_ret.res.tag = "Err" /\ chan_ret.res.kind = "IntValueOutOfRange"
    /\ Called("Tpg36x", "get_channel")
        => (chan_ret.res.tag = "Ok" <=> chan_ret.arg < num_channels.Tpg36x)

\* The test: one channel set, get_channel(1) fails.
C23_Witness ==
    /\ Called("Tpg36x", "get_channel") /\ num_channels.Tpg36x = 1
    /\ chan_ret.arg = 1
    /\ chan_ret.res = Err("ChannelIndexOutOfRange", "", <<1, 1>>)

\* C29: num_channels of an Agilent4Uhv is always in 1..=4: set_num_channels
\* stores exactly the counts 1..=4 and rejects every other with
\* IntValueOutOfRange, leaving the count as it was; get_channel returns a
\* Channel exactly for idx < num_channels, so every Channel has idx in
\* 0..=3 and its window mappings never reach their unreachable arm.
C29_AgilentChannelsInRange ==
    /\ num_channels.Agilent4Uhv \in 1..4
    /\ Called("Agilent4Uhv", "set_num_channels")
        => IF chan_ret.arg \in 1..4
           THEN chan_ret.res.tag = "Ok" /\ num_channels.Agilent4Uhv = chan_ret.arg
           ELSE /\ chan_ret.res.tag = "Err" /\ chan_ret.res.kind = "IntValueOutOfRange"
                /\ num_channels.Agilent4Uhv = chan_ret.was
    /\ Called("Agilent4Uhv", "get_channel")
        => /\ chan_ret.res.tag = "Ok" <=> chan_ret.arg < chan_ret.was
           /\ chan_ret.res.tag = "Ok" => chan_ret.res.val.idx = chan_ret.arg
    /\ \A channel \in channels : channel.inst = "Agilent4Uhv" => channel.idx \in 0..3
    /\ chan_ret.op \in {"get_hv_state", "set_hv_state", "get_pressure"}
        => chan_ret.res.tag = "Ok"

\* The fourth channel, got when there were four, read after the count was
\* set to one.
C29_Witness ==
    /\ Called("Agilent4Uhv", "get_pressure") /\ chan_ret.arg = 3
    /\ chan_ret.res = Ok(842) /\ num_channels.Agilent4Uhv = 1

\* --------------------------------------------- reading frames, as stated

RECURSIVE SpecFlat(_)
\* The bytes of a list of frames, one after another.
SpecFlat(list) == IF list = <<>> THEN <<>> ELSE Head(list) \o SpecFlat(Tail(list))

\* The read_exact calls that returned a byte, in order; the k-th of them
\* read the k-th byte the instrument sent.
Reads == SelectSeq(log, LAMBDA e : e.op = "read_exact")

\* The positions, among the bytes sent, of the bytes of the n-th frame sent.
FrameBytes(n) ==
    (SpecByteCount(SubSeq(sent, 1, n - 1)) + 1)..SpecByteCount(SubSeq(sent, 1, n))

\* The positions in reads, a sequence of read events, of the bytes that the
\* call with number c has read.
ReadBy(reads, c) == {k \in 1..Len(reads) : reads[k].id = c}

\* Handle h is in or back from a read_package that has read its last byte.
FrameRead(h) ==
    /\ call[h].fn = "read_package"
    /\ \/ pc[h] \in {"unlock_read", "try_new"}
       \/ pc[h] = "idle" /\ result[h].tag # "None"

SpecAcknowledged(frame) == Len(frame) = 6 /\ frame[3] = 6 /\ SpecVerdict(frame) = ""

\* The unit whose code a response frame carries as its six data bytes, ""
\* when the frame is not whole or carries no code of a unit.
SpecUnitReceived(frame) ==
    IF /\ Len(frame) = 15 /\ SpecVerdict(frame) = ""
       /\ \E u \in DOMAIN SpecUnitCodes :
            SubSeq(frame, 7, 12) = SpecCodePayload(SpecUnitCodes[u])
    THEN CHOOSE u \in DOMAIN SpecUnitCodes :
            SubSeq(frame, 7, 12) = SpecCodePayload(SpecUnitCodes[u])
    ELSE ""

C27_PressureInUnitOfAnswer ==
    \A h \in Handles :
        (method[h].name = "get_pressure" /\ method[h].at = "done"
            /\ method[h].out.tag = "Ok")
            => method[h].used = method[h].answered_in

\* The instrument answered a channel's pressure query in mBar; a set_unit(Torr)
\* of the owner, called later, was acknowledged and stored before the channel
\* locked the cache, and the channel took Torr.
C27_Witness ==
    /\ method[2].name = "get_pressure" /\ method[2].at = "done"
    /\ method[2].out.tag = "Ok" /\ method[2].out.val.times_133
    /\ method[2].answered_in = "mBar" /\ method[2].used = "Torr"
    /\ method[1].name = "set_unit" /\ method[1].out = Ok(<<>>)
    /\ BytesRead(call[2].id) = ResponseFrame(0, 812, PressureAnswer)
    /\ call[1].id > call[2].id
====
